---- MODULE Spec2Model ----
(***************************************************************************)
(* Agent supervision runtime: BaseAgent (lifecycle state machine, health   *)
(* monitoring, events) and AgentRegistry (bulk start/stop), modelled from   *)
(* src/src/core/agent.ts.                                                   *)
(*                                                                         *)
(* JavaScript runs one task at a time.  An async method runs synchronously  *)
(* up to its first await (the hook is invoked in that same step) and its    *)
(* continuation runs in a later task, once the awaited hook has settled.    *)
(* Each public call is therefore two actions: the call (the synchronous     *)
(* prefix) and the resumption (everything after the await).  The outcome    *)
(* of a hook is chosen by the environment when it settles.                  *)
(***************************************************************************)
EXTENDS Integers, Sequences, FiniteSets, TLC

\* Bounds of the exploration (per agent).
MaxCalls == 3       \* start()/stop() calls made on one agent
MaxTicks == 2       \* firings of one agent's interval timers
MaxDirect == 1      \* checkHealth() calls made directly by a caller
MaxBulk == 2        \* startAll()/stopAll() calls made on the registry
MaxLife == 2        \* start()/stop() calls made on the agent whose health is
                    \* checked directly
MaxPoll == 1        \* firings of that agent's interval timers
MaxRegs == 3        \* successful register() calls made on the registry
MaxVersionLen == 5  \* characters of a version string
MaxFaults == 2      \* times an agent enters the state error while 'error' events are emitted

Agents == {"a", "b"}                \* BaseAgent instances
Solo == "a"                         \* the instance driven by Spec
Twin == "a2"                        \* another instance, constructed with the
                                    \* same config.id as "a"
Instances == Agents \cup {Twin}

AgentState == {"starting", "running", "stopping", "stopped", "error"}
HealthStatus == {"healthy", "unhealthy", "degraded", "unknown"}
\* What performHealthCheck can do: return a HealthCheck of some status, or throw.
HealthOutcomes == HealthStatus \cup {"throws"}
\* The same, telling what is thrown: an Error (with its message), or a value
\* that is not an Error.
ThrowOutcomes == {"throws", "throwsValue"}
AllHealthOutcomes == HealthStatus \cup ThrowOutcomes
\* What the test agent's performHealthCheck does: report healthy, or throw.
TestAgentOutcomes == {"healthy", "throws"}

VARIABLES
  agent,      \* [Agents -> object]: the fields of every BaseAgent, with its
              \* timers, its calls and health checks in flight, its events
  registry,   \* AgentRegistry.agents: insertion-ordered sequence of instances
  bulks,      \* startAll()/stopAll() calls: sequence of call records
  thrown,     \* what the last constructor, register() or unregister() call
              \* threw ("none": it returned)
  lastRead,   \* what the last getInfo()/get()/getAll() call returned
  config      \* [Instances -> AgentConfig]: the configuration handed to the
              \* constructor of each instance

vars == <<agent, registry, bulks, thrown, lastRead, config>>

----------------------------------------------------------------------------
\* BaseAgent

NoHealth == [status |-> "none", message |-> "none"]     \* lastHealthCheck undefined
NoError == [message |-> "none", state |-> "none"]

\* The object after construction: state "stopped", the other fields undefined
\* (0 stands for undefined in healthTimer and startedAt).
NewAgent ==
  [ state |-> "stopped", healthTimer |-> 0, startedAt |-> 0,
    lastHealthCheck |-> NoHealth,
    timers |-> <<>>,        \* interval timers created: [active, inProgress]
    calls |-> <<>>,         \* start()/stop() calls: [op, pc, err, by, pre, busy]
    checks |-> {},          \* checkHealth() invocations awaiting the hook
    ticks |-> 0,            \* timer firings so far
    direct |-> 0,           \* direct checkHealth() calls so far
    returned |-> NoHealth,  \* what the last checkHealth() to return returned
    outcome |-> "none",     \* what the last performHealthCheck to settle did
    events |-> <<>>,        \* stateChanged/started/stopped events, in order
    unhealthy |-> 0,        \* unhealthy events emitted so far
    listeners |-> 0,        \* registrations whose forwarding handlers are attached
    forwarded |-> [started |-> 0, stopped |-> 0, unhealthy |-> 0],
                            \* events the registry re-emitted, per type
    relayed |-> [started |-> NoHealth, stopped |-> NoHealth, unhealthy |-> NoHealth] ]
                            \* payload of the last event re-emitted, per type

Event(type, old, new) == [type |-> type, oldState |-> old, newState |-> new]

\* EventEmitter.emit for started, stopped and unhealthy: the event reaches
\* the observers, and every forwarding handler attached by a registry
\* re-emits it (agentStarted, agentStopped, agentUnhealthy).
\* The payload of an unhealthy event is the health record just cached.
\*
\* Faulty variant: no forwarding handler is attached for unhealthy.
emit_UnhealthyNotForwarded(self, type) ==
  IF type = "unhealthy"
  THEN [self EXCEPT !.unhealthy = @ + 1]
  ELSE [self EXCEPT !.events = Append(@, Event(type, "none", "none")),
                    !.forwarded[type] = @ + self.listeners,
                    !.relayed[type] = IF self.listeners > 0 THEN Event(type, "none", "none")
                                                           ELSE @]

emit(self, type) ==
  LET payload == IF type = "unhealthy" THEN self.lastHealthCheck
                                       ELSE Event(type, "none", "none")
      seen == IF type = "unhealthy"
              THEN [self EXCEPT !.unhealthy = @ + 1]
              ELSE [self EXCEPT !.events = Append(@, payload)]
  IN [seen EXCEPT !.forwarded[type] = @ + self.listeners,
                  !.relayed[type] = IF self.listeners > 0 THEN payload ELSE @]

\* Faulty variant: oldState is read after the assignment.
setState_OldReadLate(self, newState) ==
  [self EXCEPT !.state = newState,
               !.events = Append(@, Event("stateChanged", newState, newState))]

setState(self, newState) ==
  [self EXCEPT !.state = newState,
               !.events = Append(@, Event("stateChanged", self.state, newState))]

\* Faulty variant: a restart straight from error is let through.
validateCanStart_AllowsError(self) == self.state \in {"stopped", "error"}

validateCanStart(self) == self.state = "stopped"

\* Faulty variant: only stopped is recognised, not stopping.
isAlreadyStoppedOrStopping_OnlyStopped(self) == self.state = "stopped"

isAlreadyStoppedOrStopping(self) == self.state \in {"stopped", "stopping"}

\* checkHealth() up to its await: performHealthCheck is invoked and outstanding.
\* A check in flight is named by who made it: the initial check of timer t,
\* the callback of timer t, or the n-th direct call; pre records the
\* lifecycle state it was called in.
checkHealth(self, origin, n) ==
  [self EXCEPT !.checks = @ \cup {[origin |-> origin, n |-> n, pre |-> self.state]}]

\* checkHealth() after the hook settled: cache, emit on unhealthy, return.
\* The message of the Error a failing performHealthCheck throws (an input),
\* and the message checkHealth() uses when what was thrown is not an Error.
ThrownMessage == "down"
FallbackMessage == "Health check failed"

\* Faulty variant: no catch, the hook's exception propagates to the caller
\* and nothing is cached or emitted.
checkHealthResume_Propagates(self, k, outcome) ==
  IF outcome \in ThrowOutcomes
  THEN [self EXCEPT !.checks = @ \ {k}, !.outcome = outcome]
  ELSE LET health == [status |-> outcome, message |-> "reported"]
           cached == [self EXCEPT !.lastHealthCheck = health, !.checks = @ \ {k},
                                  !.returned = health, !.outcome = outcome]
       IN IF health.status = "unhealthy" THEN emit(cached, "unhealthy") ELSE cached

\* Faulty variant: an unhealthy result puts the agent in state error.
checkHealthResume_MarksError(self, k, outcome) ==
  LET health == IF outcome \in ThrowOutcomes
                THEN [status |-> "unhealthy", message |-> ThrownMessage]
                ELSE [status |-> outcome, message |-> "reported"]
      cached == [self EXCEPT !.lastHealthCheck = health, !.checks = @ \ {k},
                             !.returned = health, !.outcome = outcome]
  IN IF health.status = "unhealthy"
     THEN setState(emit(cached, "unhealthy"), "error") ELSE cached

\* Faulty variant: every result that is not healthy is announced.
checkHealthResume_EmitsUnlessHealthy(self, k, outcome) ==
  LET health == CASE outcome = "throws" ->
                       [status |-> "unhealthy", message |-> ThrownMessage]
                  [] outcome = "throwsValue" ->
                       [status |-> "unhealthy", message |-> FallbackMessage]
                  [] OTHER -> [status |-> outcome, message |-> "reported"]
      cached == [self EXCEPT !.lastHealthCheck = health, !.checks = @ \ {k},
                             !.returned = health, !.outcome = outcome]
  IN IF health.status # "healthy" THEN emit(cached, "unhealthy") ELSE cached

\* Faulty variant: a hook that throws is reported with status unknown.
checkHealthResume_Unknown(self, k, outcome) ==
  LET health == IF outcome \in ThrowOutcomes
                THEN [status |-> "unknown", message |-> ThrownMessage]
                ELSE [status |-> outcome, message |-> "reported"]
      cached == [self EXCEPT !.lastHealthCheck = health, !.checks = @ \ {k},
                             !.returned = health, !.outcome = outcome]
  IN IF health.status = "unhealthy" THEN emit(cached, "unhealthy") ELSE cached

checkHealthResume(self, k, outcome) ==
  LET health == CASE outcome = "throws" ->
                       [status |-> "unhealthy", message |-> ThrownMessage]
                  [] outcome = "throwsValue" ->
                       [status |-> "unhealthy", message |-> FallbackMessage]
                  [] OTHER -> [status |-> outcome, message |-> "reported"]
      cached == [self EXCEPT !.lastHealthCheck = health,
                             !.checks = @ \ {k},
                             !.returned = health,
                             !.outcome = outcome]
  IN IF health.status = "unhealthy" THEN emit(cached, "unhealthy") ELSE cached

\* Faulty variant: the handle is dropped without clearInterval.
stopHealthMonitoring_NoClear(self) == [self EXCEPT !.healthTimer = 0]

stopHealthMonitoring(self) ==
  IF self.healthTimer # 0
  THEN [self EXCEPT !.timers[self.healthTimer].active = FALSE, !.healthTimer = 0]
  ELSE self

\* Faulty variant: the interval is scheduled without the initial check, so
\* the first check waits for the first firing.
startHealthMonitoring_NoInitialCheck(self) ==
  LET cleared == IF self.healthTimer # 0
                 THEN [self EXCEPT !.timers[self.healthTimer].active = FALSE]
                 ELSE self
  IN [cleared EXCEPT !.timers = Append(@, [active |-> TRUE, inProgress |-> FALSE]),
                     !.healthTimer = Len(self.timers) + 1]

\* Faulty variant: only the initial check is made, no interval is scheduled.
startHealthMonitoring_NoInterval(self) == checkHealth(self, "initial", self.healthTimer)

\* Faulty variant: the timer held is not cancelled before a new one is
\* scheduled.
startHealthMonitoring_KeepsOldTimer(self) ==
  LET t == Len(self.timers) + 1
      scheduled == [self EXCEPT !.timers = Append(@, [active |-> TRUE, inProgress |-> FALSE]),
                                !.healthTimer = t]
  IN checkHealth(scheduled, "initial", t)

startHealthMonitoring(self) ==
  LET cleared == IF self.healthTimer # 0
                 THEN [self EXCEPT !.timers[self.healthTimer].active = FALSE]
                 ELSE self
      t == Len(self.timers) + 1
      scheduled == [cleared EXCEPT !.timers = Append(@, [active |-> TRUE, inProgress |-> FALSE]),
                                   !.healthTimer = t]
  IN checkHealth(scheduled, "initial", t)

\* The setInterval callback of timer t.
timerCallback(self, t) ==
  LET fired == [self EXCEPT !.ticks = @ + 1]
  IN IF self.timers[t].inProgress
     THEN fired
     ELSE checkHealth([fired EXCEPT !.timers[t].inProgress = TRUE], "timer", t)

\* The callback's finally block, after its checkHealth() returned.
timerCallbackResume(self, k) ==
  IF k.origin = "timer" THEN [self EXCEPT !.timers[k.n].inProgress = FALSE] ELSE self

InFlight(self) == {c \in DOMAIN self.calls : self.calls[c].pc \in {"onStart", "onStop"}}

\* The record of one start()/stop() call: pc is where the call is ("onStart" or
\* "onStop" while it awaits the hook, else how its promise settled), err what
\* it was rejected with, by the bulk call that made it (0: a direct call);
\* pre and busy record what the call found: the state, and whether another
\* call on the agent was awaiting its hook.
Call(self, op, pc, err, by) ==
  [op |-> op, pc |-> pc, err |-> err, by |-> by, pre |-> self.state, busy |-> InFlight(self) # {}]

\* Faulty variant: an accepted start() forgets the cached health.
start_ResetsHealth(self, by) ==
  IF ~validateCanStart(self)
  THEN [self EXCEPT !.calls = Append(@, Call(self, "start", "rejected",
          [message |-> "Cannot start agent in state", state |-> self.state], by))]
  ELSE [setState(self, "starting") EXCEPT
          !.lastHealthCheck = NoHealth,
          !.startedAt = Len(self.calls) + 1,
          !.calls = Append(@, Call(self, "start", "onStart", NoError, by))]

\* start() up to `await this.onStart()`; by = 0 for a direct call, else the
\* startAll() call that made it.
start(self, by) ==
  IF ~validateCanStart(self)
  THEN [self EXCEPT !.calls = Append(@, Call(self, "start", "rejected",
          [message |-> "Cannot start agent in state", state |-> self.state], by))]
  ELSE [setState(self, "starting") EXCEPT
          !.startedAt = Len(self.calls) + 1,
          !.calls = Append(@, Call(self, "start", "onStart", NoError, by))]

\* What a failing onStart / onStop throws (the hooks of the test agent).
OnStartError == [message |-> "Start failed", state |-> "none"]
OnStopError == [message |-> "Stop failed", state |-> "none"]

\* Faulty variant: a failed start falls back to stopped.
handleStartupError_BackToStopped(self) == setState(self, "stopped")

handleStartupError(self) == setState(self, "error")

\* start() after onStart settled.
startResume(self, c, ok) ==
  IF ok
  THEN [emit(startHealthMonitoring(setState(self, "running")), "started")
          EXCEPT !.calls[c].pc = "resolved"]
  ELSE [handleStartupError(self) EXCEPT
          !.calls[c].pc = "rejected",
          !.calls[c].err = OnStartError]

\* Faulty variant: stop() discards the health checks that are outstanding.
stop_DiscardsChecks(self, by) ==
  IF isAlreadyStoppedOrStopping(self)
  THEN [self EXCEPT !.calls = Append(@, Call(self, "stop", "resolved", NoError, by))]
  ELSE [stopHealthMonitoring(setState(self, "stopping")) EXCEPT
          !.checks = {},
          !.calls = Append(@, Call(self, "stop", "onStop", NoError, by))]

\* Faulty variant: the early return marks the agent stopped.
stop_EarlyReturnMarksStopped(self, by) ==
  IF isAlreadyStoppedOrStopping(self)
  THEN [(IF self.state = "stopped" THEN self ELSE setState(self, "stopped")) EXCEPT
          !.calls = Append(@, Call(self, "stop", "resolved", NoError, by))]
  ELSE [stopHealthMonitoring(setState(self, "stopping")) EXCEPT
          !.calls = Append(@, Call(self, "stop", "onStop", NoError, by))]

\* stop() up to `await this.onStop()`.
stop(self, by) ==
  IF isAlreadyStoppedOrStopping(self)
  THEN [self EXCEPT !.calls = Append(@, Call(self, "stop", "resolved", NoError, by))]
  ELSE [stopHealthMonitoring(setState(self, "stopping")) EXCEPT
          !.calls = Append(@, Call(self, "stop", "onStop", NoError, by))]

\* Faulty variant: a failed stop is taken as stopped.
handleShutdownError_TakenAsStopped(self) == setState(self, "stopped")

\* Faulty variant: a failed stop leaves the state as it is.
handleShutdownError_NoStateChange(self) == self

handleShutdownError(self) == setState(self, "error")

\* Faulty variant: the stopped event is emitted before the state is set.
stopResume_EmitsFirst(self, c, ok) ==
  IF ok
  THEN [setState(emit(self, "stopped"), "stopped") EXCEPT !.calls[c].pc = "resolved"]
  ELSE [handleShutdownError(self) EXCEPT !.calls[c].pc = "rejected", !.calls[c].err = OnStopError]

\* Faulty variant: a completed stop clears the start timestamp.
stopResume_ClearsStartedAt(self, c, ok) ==
  IF ok
  THEN [emit(setState(self, "stopped"), "stopped") EXCEPT
          !.startedAt = 0, !.calls[c].pc = "resolved"]
  ELSE [handleShutdownError(self) EXCEPT
          !.startedAt = 0,
          !.calls[c].pc = "rejected",
          !.calls[c].err = OnStopError]

\* stop() after onStop settled.
stopResume(self, c, ok) ==
  IF ok
  THEN [emit(setState(self, "stopped"), "stopped") EXCEPT !.calls[c].pc = "resolved"]
  ELSE [handleShutdownError(self) EXCEPT
          !.calls[c].pc = "rejected",
          !.calls[c].err = OnStopError]

----------------------------------------------------------------------------
\* Actions on one agent

Start(a) ==
  /\ Len(agent[a].calls) < MaxCalls
  /\ agent' = [agent EXCEPT ![a] = start(@, 0)]
  /\ UNCHANGED <<registry, bulks, thrown, lastRead, config>>

Stop(a) ==
  /\ Len(agent[a].calls) < MaxCalls
  /\ agent' = [agent EXCEPT ![a] = stop(@, 0)]
  /\ UNCHANGED <<registry, bulks, thrown, lastRead, config>>

OnStartSettles(a) ==
  \E c \in DOMAIN agent[a].calls, ok \in BOOLEAN :
    /\ agent[a].calls[c].pc = "onStart"
    /\ agent' = [agent EXCEPT ![a] = startResume(@, c, ok)]
    /\ UNCHANGED <<registry, bulks, thrown, lastRead, config>>

OnStopSettles(a) ==
  \E c \in DOMAIN agent[a].calls, ok \in BOOLEAN :
    /\ agent[a].calls[c].pc = "onStop"
    /\ agent' = [agent EXCEPT ![a] = stopResume(@, c, ok)]
    /\ UNCHANGED <<registry, bulks, thrown, lastRead, config>>

TimerFires(a) ==
  \E t \in DOMAIN agent[a].timers :
    /\ agent[a].timers[t].active
    /\ agent[a].ticks < MaxTicks
    /\ agent' = [agent EXCEPT ![a] = timerCallback(@, t)]
    /\ UNCHANGED <<registry, bulks, thrown, lastRead, config>>

CheckHealth(a) ==
  /\ agent[a].direct < MaxDirect
  /\ agent' = [agent EXCEPT ![a] = checkHealth([@ EXCEPT !.direct = @ + 1], "direct", @.direct + 1)]
  /\ UNCHANGED <<registry, bulks, thrown, lastRead, config>>

HealthCheckSettles(a, outcomes) ==
  \E k \in agent[a].checks, outcome \in outcomes :
    /\ agent' = [agent EXCEPT ![a] = timerCallbackResume(checkHealthResume(@, k, outcome), k)]
    /\ UNCHANGED <<registry, bulks, thrown, lastRead, config>>

\* Faulty variant: the 'error' listener also cancels the health-check timer.
onError_StopsMonitoring(self) == stopHealthMonitoring(setState(self, "error"))

\* The listener setupEventHandlers() attaches for 'error'.
onError(self) == setState(self, "error")

\* How often the agent has entered the state error.
Faults(self) ==
  Len(SelectSeq(self.events, LAMBDA e : e.type = "stateChanged" /\ e.newState = "error"))

\* An 'error' event is emitted on agent a (by the agent's subclass or by any
\* holder of the object).
ErrorEvent(a) ==
  /\ Faults(agent[a]) < MaxFaults
  /\ agent' = [agent EXCEPT ![a] = onError(@)]
  /\ UNCHANGED <<registry, bulks, thrown, lastRead, config>>

AgentStep(a) ==
  \/ Start(a)
  \/ Stop(a)
  \/ OnStartSettles(a)
  \/ OnStopSettles(a)
  \/ TimerFires(a)
  \/ HealthCheckSettles(a, HealthOutcomes)

----------------------------------------------------------------------------
\* AgentRegistry

Range(f) == {f[i] : i \in DOMAIN f}

\* config.id of an instance, as getInfo().id reports it.
IdOf(x) == IF x = Twin THEN "a" ELSE x

\* ---- Construction: AgentConfigSchema and the BaseAgent constructor ----

\* A version string is the sequence of its characters; the characters drawn
\* are a digit, the dot and a letter.
Chars == {"1", ".", "v"}
Digits == {"0", "1", "2", "3", "4", "5", "6", "7", "8", "9"}
Versions == UNION {[1..n -> Chars] : n \in 0..MaxVersionLen}

\* The configurations handed to the constructor: every field the schema
\* constrains takes values on both sides of its constraint.
Configs ==
  [ id : {"", IdOf(Solo)}, name : {"", "Test Agent"}, version : Versions,
    enabled : {TRUE}, dependencies : {<<>>},
    healthCheckInterval : {-1, 0, 1}, maxRetries : {-1, 0}, timeout : {0, 1} ]

\* The configuration of the tests (intervals and timeouts in seconds).
ValidConfig(x) ==
  [ id |-> IdOf(x), name |-> "Test Agent", version |-> <<"1", ".", "1", ".", "1">>,
    enabled |-> TRUE, dependencies |-> <<>>,
    healthCheckInterval |-> 1, maxRetries |-> 0, timeout |-> 1 ]

\* /^\d+\.\d+\.\d+$/ run over s from position i: group is the run of digits
\* being read (1 to 3), digits whether it has a digit yet.
RECURSIVE VersionRegex(_, _, _, _)
VersionRegex(s, i, group, digits) ==
  IF i > Len(s) THEN group = 3 /\ digits
  ELSE IF s[i] \in Digits THEN VersionRegex(s, i + 1, group, TRUE)
  ELSE IF s[i] = "." /\ digits /\ group < 3 THEN VersionRegex(s, i + 1, group + 1, FALSE)
  ELSE FALSE

\* Faulty variant: the schema does not constrain the version.
AgentConfigSchema_AnyVersion(cfg) ==
  /\ cfg.id # ""
  /\ cfg.name # ""
  /\ cfg.enabled \in BOOLEAN
  /\ cfg.dependencies \in Seq(STRING)
  /\ cfg.healthCheckInterval > 0
  /\ cfg.maxRetries >= 0
  /\ cfg.timeout > 0

\* AgentConfigSchema.safeParse(cfg).success
AgentConfigSchema(cfg) ==
  /\ cfg.id # ""                                  \* z.string().min(1)
  /\ cfg.name # ""                                \* z.string().min(1)
  /\ VersionRegex(cfg.version, 1, 1, FALSE)       \* z.string().regex(...)
  /\ cfg.enabled \in BOOLEAN                      \* z.boolean()
  /\ cfg.dependencies \in Seq(STRING)             \* z.array(z.string())
  /\ cfg.healthCheckInterval > 0                  \* z.number().positive()
  /\ cfg.maxRetries >= 0                          \* z.number().nonnegative()
  /\ cfg.timeout > 0                              \* z.number().positive()

InvalidConfiguration == "Invalid agent configuration"

\* new Agent(cfg): what it throws, and the object it yields (the sequence of
\* the object: empty when it threw).
constructor(cfg) ==
  IF ~AgentConfigSchema(cfg)
  THEN [threw |-> InvalidConfiguration, self |-> <<>>]
  ELSE [threw |-> "none", self |-> <<NewAgent>>]

\* The caller evaluates new Agent(config[x]); x names the object it yields.
Construct(x) ==
  /\ x \notin DOMAIN agent
  /\ thrown' = constructor(config[x]).threw
  /\ agent' = [y \in DOMAIN agent \cup {z \in {x} : constructor(config[x]).self # <<>>} |->
                IF y = x THEN constructor(config[x]).self[1] ELSE agent[y]]
  /\ UNCHANGED <<registry, bulks, lastRead, config>>

\* results.map(r => r.status === 'fulfilled' ? r.value.agentId : 'unknown')
AgentIds(results) ==
  [i \in DOMAIN results |->
     IF results[i].status = "fulfilled" THEN results[i].agentId ELSE "unknown"]

\* Faulty variant: the wrapper has no try/catch, the rejection reaches allSettled.
StartOutcome_NoCatch(x, c) ==
  [status |-> IF agent[x].calls[c].pc = "resolved" THEN "fulfilled" ELSE "rejected",
   success |-> agent[x].calls[c].pc = "resolved", agentId |-> IdOf(x)]

\* What Promise.allSettled reports for one agent of startAll(): the wrapper
\* around agent.start() catches the rejection and returns a value either way.
StartOutcome(x, c) ==
  [status |-> "fulfilled", success |-> agent[x].calls[c].pc = "resolved", agentId |-> IdOf(x)]

\* Faulty variant: the per-agent stop() promise has no .catch handler.
StopOutcome_NoCatch(x, c) ==
  [status |-> IF agent[x].calls[c].pc = "rejected" THEN "rejected" ELSE "fulfilled"]

\* What Promise.all is given for one agent of stopAll(): agent.stop() with a
\* .catch handler that logs and returns, so the promise fulfils either way.
StopOutcome(x, c) == [status |-> "fulfilled"]

\* Faulty variant: the filter forgets r.value.success.
Successful_AllFulfilled(results) ==
  AgentIds(SelectSeq(results, LAMBDA r : r.status = "fulfilled"))

Successful(results) ==
  AgentIds(SelectSeq(results, LAMBDA r : r.status = "fulfilled" /\ r.success))

Failed(results) ==
  AgentIds(SelectSeq(results,
             LAMBDA r : r.status = "rejected" \/ (r.status = "fulfilled" /\ ~r.success)))

Bulk(op, subs) ==
  [op |-> op, subs |-> subs, pc |-> "awaiting", successful |-> <<>>, failed |-> <<>>]

\* The calls a bulk operation makes: one per registered agent, in map order.
Subs == [i \in DOMAIN registry |->
           [agent |-> registry[i], call |-> Len(agent[registry[i]].calls) + 1]]

\* The Map of the registry as a value: the instances in insertion order,
\* each stored under its identifier.  get gives the sequence of what is
\* stored under a key (empty for undefined).
MapGet(agents, agentId) == SelectSeq(agents, LAMBDA x : IdOf(x) = agentId)
MapHas(agents, agentId) == MapGet(agents, agentId) # <<>>
MapSet(agents, x) == Append(agents, x)

\* Faulty variant: the entry is looked for under the instance's name.
MapDelete_ByName(agents, agentId) == SelectSeq(agents, LAMBDA x : x # agentId)

MapDelete(agents, agentId) == SelectSeq(agents, LAMBDA x : IdOf(x) # agentId)

\* register() and unregister() on a Map value: what is thrown ("none": the
\* call returned) and the Map afterwards.
register(agents, x) ==
  IF MapHas(agents, IdOf(x))
  THEN [threw |-> "already registered", agents |-> agents]
  ELSE [threw |-> "none", agents |-> MapSet(agents, x)]

unregister(agents, agentId) ==
  IF ~MapHas(agents, agentId)
  THEN [threw |-> "not registered", agents |-> agents]
  ELSE [threw |-> "none", agents |-> MapDelete(agents, agentId)]

\* get(agentId): the instance stored under the identifier, or undefined.
get(agentId) == MapGet(registry, agentId)

\* Faulty variant: the registry is keyed by the instance, not by its
\* identifier.
Register_ByInstance(x) ==
  IF x \in Range(registry)
  THEN /\ thrown' = "already registered"
       /\ UNCHANGED <<agent, registry, bulks, lastRead, config>>
  ELSE /\ registry' = Append(registry, x)
       /\ agent' = [agent EXCEPT ![x].listeners = @ + 1]
       /\ thrown' = "none"
       /\ UNCHANGED <<bulks, lastRead, config>>

Register(x) ==
  /\ thrown' = register(registry, x).threw
  /\ registry' = register(registry, x).agents
  /\ agent' = IF register(registry, x).threw = "none"
              THEN [agent EXCEPT ![x].listeners = @ + 1]
              ELSE agent
  /\ UNCHANGED <<bulks, lastRead, config>>

\* Faulty variant: the agents are started one after the other
\* (for ... await agent.start()), so the call's first step reaches only the
\* first agent.
StartAll_Sequential ==
  /\ Len(bulks) < MaxBulk
  /\ \A x \in Range(registry) : Len(agent[x].calls) < MaxCalls
  /\ agent' = [x \in Instances |->
                 IF registry # <<>> /\ x = registry[1]
                 THEN start(agent[x], Len(bulks) + 1) ELSE agent[x]]
  /\ bulks' = Append(bulks, Bulk("startAll", [i \in DOMAIN Subs \cap {1} |-> Subs[i]]))
  /\ UNCHANGED <<registry, thrown, lastRead, config>>

\* Faulty variant: agents whose configuration is not enabled are skipped.
StartAll_SkipsDisabled ==
  /\ Len(bulks) < MaxBulk
  /\ \A x \in Range(registry) : Len(agent[x].calls) < MaxCalls
  /\ agent' = [x \in Instances |->
                 IF x \in Range(registry) /\ config[x].enabled
                 THEN start(agent[x], Len(bulks) + 1) ELSE agent[x]]
  /\ bulks' = Append(bulks, Bulk("startAll",
                 SelectSeq(Subs, LAMBDA sub : config[sub.agent].enabled)))
  /\ UNCHANGED <<registry, thrown, lastRead, config>>

\* Faulty variant: unregistering an agent also stops it.
Unregister_Stops(agentId) ==
  IF get(agentId) = <<>>
  THEN /\ thrown' = "not registered"
       /\ UNCHANGED <<agent, registry, bulks, lastRead, config>>
  ELSE /\ registry' = SelectSeq(registry, LAMBDA x : IdOf(x) # agentId)
       /\ agent' = [agent EXCEPT ![get(agentId)[1]] = stop(@, 0)]
       /\ thrown' = "none"
       /\ UNCHANGED <<bulks, lastRead, config>>

\* Faulty variant: unregistering detaches one set of forwarding handlers.
Unregister_Detaches(agentId) ==
  /\ thrown' = unregister(registry, agentId).threw
  /\ registry' = unregister(registry, agentId).agents
  /\ agent' = IF get(agentId) = <<>> THEN agent
              ELSE [agent EXCEPT ![get(agentId)[1]].listeners = @ - 1]
  /\ UNCHANGED <<bulks, lastRead, config>>

Unregister(agentId) ==
  /\ thrown' = unregister(registry, agentId).threw
  /\ registry' = unregister(registry, agentId).agents
  /\ UNCHANGED <<agent, bulks, lastRead, config>>

\* startAll() up to `await Promise.allSettled(...)`: every agent's start() has
\* run its synchronous prefix.
StartAll ==
  /\ Len(bulks) < MaxBulk
  /\ \A x \in Range(registry) : Len(agent[x].calls) < MaxCalls
  /\ agent' = [x \in Instances |->
                 IF x \in Range(registry) THEN start(agent[x], Len(bulks) + 1) ELSE agent[x]]
  /\ bulks' = Append(bulks, Bulk("startAll", Subs))
  /\ UNCHANGED <<registry, thrown, lastRead, config>>

\* stopAll() up to `await Promise.all(stopPromises)`.
StopAll ==
  /\ Len(bulks) < MaxBulk
  /\ \A x \in Range(registry) : Len(agent[x].calls) < MaxCalls
  /\ agent' = [x \in Instances |->
                 IF x \in Range(registry) THEN stop(agent[x], Len(bulks) + 1) ELSE agent[x]]
  /\ bulks' = Append(bulks, Bulk("stopAll", Subs))
  /\ UNCHANGED <<registry, thrown, lastRead, config>>

\* Faulty variant: the cached health is reported as it is, without the
\* placeholder for a missing one.
getInfo_NoPlaceholder(x) ==
  [id |-> IdOf(x), state |-> agent[x].state, health |-> agent[x].lastHealthCheck]

\* Date.now() on the clock that start() reads for startedAt: the clock
\* ticks with every start()/stop() call, and a call's timestamp is its index.
Now(self) == Len(self.calls) + 1

\* getInfo() of instance x: identifier, state, and the cached health or, before
\* any check has completed, a placeholder of status unknown.  startedAt is
\* the timestamp of the last accepted start() (0: absent), uptime the time
\* since then (0 if never started).
getInfo(x) ==
  [id |-> IdOf(x), state |-> agent[x].state,
   health |-> IF agent[x].lastHealthCheck = NoHealth
              THEN [status |-> "unknown", message |-> "No health check performed yet"]
              ELSE agent[x].lastHealthCheck,
   startedAt |-> agent[x].startedAt,
   uptime |-> IF agent[x].startedAt # 0 THEN Now(agent[x]) - agent[x].startedAt ELSE 0]

getAll == [i \in DOMAIN registry |-> getInfo(registry[i])]

\* The result of a read: the call, its argument and the value returned (the
\* sequence of what it returned: empty for undefined).
Seen(op, arg, value) == [op |-> op, arg |-> arg, value |-> value]
NothingSeen == Seen("none", "none", <<>>)

\* The identifiers callers look up: those of the instances, and one that no
\* instance has.
Ids == {IdOf(x) : x \in Instances} \cup {"non-existent"}

GetInfo(x) ==
  /\ lastRead' = Seen("getInfo", x, <<getInfo(x)>>)
  /\ UNCHANGED <<agent, registry, bulks, thrown, config>>

Get(agentId) ==
  /\ lastRead' = Seen("get", agentId, get(agentId))
  /\ UNCHANGED <<agent, registry, bulks, thrown, config>>

\* Faulty variant: getAll() refreshes the health of the agents it reports.
GetAll_Refreshes ==
  /\ lastRead' = Seen("getAll", "none", getAll)
  /\ agent' = [x \in Instances |->
                 IF x \in Range(registry) THEN checkHealth(agent[x], "direct", 1)
                                         ELSE agent[x]]
  /\ UNCHANGED <<registry, bulks, thrown, config>>

GetAll ==
  /\ lastRead' = Seen("getAll", "none", getAll)
  /\ UNCHANGED <<agent, registry, bulks, thrown, config>>

Settled(sub) == agent[sub.agent].calls[sub.call].pc \in {"resolved", "rejected"}

\* Faulty variant: the join short-circuits (Promise.all over promises that
\* rethrow), so the bulk call rejects when a per-agent promise rejected.
BulkSettles_FailFast ==
  \E b \in DOMAIN bulks :
    /\ bulks[b].pc = "awaiting"
    /\ \A i \in DOMAIN bulks[b].subs : Settled(bulks[b].subs[i])
    /\ bulks' = [bulks EXCEPT ![b].pc =
         IF \E i \in DOMAIN bulks[b].subs :
              agent[bulks[b].subs[i].agent].calls[bulks[b].subs[i].call].pc = "rejected"
         THEN "rejected" ELSE "resolved"]
    /\ UNCHANGED <<agent, registry, thrown, lastRead, config>>

\* Faulty variant: the join is a race: the bulk call goes on as soon as one
\* per-agent promise has settled.
BulkSettles_Race ==
  \E b \in DOMAIN bulks :
    /\ bulks[b].pc = "awaiting"
    /\ \E i \in DOMAIN bulks[b].subs : Settled(bulks[b].subs[i])
    /\ bulks' = [bulks EXCEPT ![b].pc = "resolved"]
    /\ UNCHANGED <<agent, registry, thrown, lastRead, config>>

\* The bulk call after its await: every per-agent promise has settled.
BulkSettles ==
  \E b \in DOMAIN bulks :
    /\ bulks[b].pc = "awaiting"
    /\ \A i \in DOMAIN bulks[b].subs : Settled(bulks[b].subs[i])
    /\ LET results == [i \in DOMAIN bulks[b].subs |->
                         StartOutcome(bulks[b].subs[i].agent, bulks[b].subs[i].call)]
       IN bulks' = [bulks EXCEPT ![b] =
            IF bulks[b].op = "startAll"
            THEN [@ EXCEPT !.pc = "resolved",
                           !.successful = Successful(results),
                           !.failed = Failed(results)]
            ELSE [@ EXCEPT !.pc =
                    IF \A i \in DOMAIN bulks[b].subs :
                         StopOutcome(bulks[b].subs[i].agent, bulks[b].subs[i].call).status
                           = "fulfilled"
                    THEN "resolved" ELSE "rejected"]]
    /\ UNCHANGED <<agent, registry, thrown, lastRead, config>>

Init ==
  /\ agent = [a \in Instances |-> NewAgent]
  /\ registry = <<>>
  /\ bulks = <<>>
  /\ thrown = "none"
  /\ lastRead = NothingSeen
  /\ config = [x \in Instances |-> ValidConfig(x)]

Next == AgentStep(Solo)

\* One agent under every interleaving of start() and stop() calls, hook
\* completions, timer firings and the health checks the agent schedules.
Spec == Init /\ [][Next]_vars

\* The same, with checkHealth() also called directly.
NextHealth ==
  \/ Len(agent[Solo].calls) < MaxLife /\ Start(Solo)
  \/ Len(agent[Solo].calls) < MaxLife /\ Stop(Solo)
  \/ OnStartSettles(Solo)
  \/ OnStopSettles(Solo)
  \/ agent[Solo].ticks < MaxPoll /\ TimerFires(Solo)
  \/ CheckHealth(Solo)
  \/ HealthCheckSettles(Solo, AllHealthOutcomes)

SpecHealth == Init /\ [][NextHealth]_vars

\* The registry with its agents: a caller registers agents (each once) and
\* makes bulk calls; hooks and the agents' initial health checks settle.
NextRegistry ==
  \/ \E x \in Agents \ Range(registry) : Register(x)
  \/ StartAll
  \/ StopAll
  \/ BulkSettles
  \/ \E a \in Agents : OnStartSettles(a)
  \/ \E a \in Agents : OnStopSettles(a)
  \/ \E a \in Agents : HealthCheckSettles(a, TestAgentOutcomes)

SpecRegistry == Init /\ [][NextRegistry]_vars

\* The reads: agents are registered, one of them goes through its lifecycle
\* with its health checks, and callers read through getInfo(), get() and
\* getAll() at any moment.
NextLookup ==
  \/ \E x \in Agents \ Range(registry) : Register(x)
  \/ Len(agent[Solo].calls) < MaxLife /\ Start(Solo)
  \/ Len(agent[Solo].calls) < MaxLife /\ Stop(Solo)
  \/ OnStartSettles(Solo)
  \/ OnStopSettles(Solo)
  \/ HealthCheckSettles(Solo, TestAgentOutcomes)
  \/ GetInfo(Solo)
  \/ \E agentId \in Ids : Get(agentId)
  \/ GetAll

SpecLookup == Init /\ [][NextLookup]_vars

\* Registrations made so far (each attached one set of forwarding handlers).
Registrations == agent["a"].listeners + agent["b"].listeners + agent[Twin].listeners

\* Membership: instances are registered (also under an identifier already
\* present) and unregistered (also under identifiers not present) in any
\* order, while one agent is started and stopped, with its timer and health
\* checks.
NextMembership ==
  \/ \E x \in Instances : Registrations < MaxRegs /\ Register(x)
  \/ \E agentId \in Ids : Unregister(agentId)
  \/ agent[Solo].calls = <<>> /\ Start(Solo)
  \/ Len(agent[Solo].calls) = 1 /\ Stop(Solo)
  \/ OnStartSettles(Solo)
  \/ OnStopSettles(Solo)
  \/ agent[Solo].ticks < MaxPoll /\ TimerFires(Solo)
  \/ HealthCheckSettles(Solo, TestAgentOutcomes)

SpecMembership == Init /\ [][NextMembership]_vars

\* Construction: no object exists at first; the caller holds one
\* configuration per instance, any configuration for Solo and the tests'
\* configuration for Peer.
InitConstruct ==
  /\ agent = [x \in {} |-> NewAgent]
  /\ registry = <<>>
  /\ bulks = <<>>
  /\ thrown = "none"
  /\ lastRead = NothingSeen
  /\ config \in {[x \in Instances |-> IF x = Solo THEN cfg ELSE ValidConfig(x)] :
                   cfg \in Configs}

\* The caller constructs the two objects, and starts, stops and registers
\* the objects it holds.
NextConstruct ==
  \/ \E x \in Agents : Construct(x)
  \/ \E x \in DOMAIN agent : ~MapHas(registry, IdOf(x)) /\ Register(x)
  \/ Solo \in DOMAIN agent /\ agent[Solo].calls = <<>> /\ Start(Solo)
  \/ Solo \in DOMAIN agent /\ Len(agent[Solo].calls) < MaxLife /\ Stop(Solo)
  \/ Solo \in DOMAIN agent /\ OnStartSettles(Solo)
  \/ Solo \in DOMAIN agent /\ OnStopSettles(Solo)

SpecConstruct == InitConstruct /\ [][NextConstruct]_vars

\* The hooks of the two agents of the health scenario: the health hook of
\* "a" reports healthy, that of "b" throws an Error with message "down".
HealthHook(x) == IF x = "a" THEN {"healthy"} ELSE {"throws"}

\* The scenario: the agents are registered and started through startAll();
\* their initial checks and their timers run.
NextScenario ==
  \/ \E x \in Agents \ Range(registry) : Register(x)
  \/ StartAll
  \/ BulkSettles
  \/ \E a \in Agents : OnStartSettles(a)
  \/ \E a \in Agents : TimerFires(a)
  \/ \E a \in Agents : HealthCheckSettles(a, HealthHook(a))

SpecScenario == Init /\ [][NextScenario]_vars

\* The registry when the hooks of agent "b" complete whenever they are
\* awaited, while nothing is assumed of agent "a": its hooks may be slow or
\* never complete.
Peer == "b"
NextFleet ==
  \/ \E x \in Agents \ Range(registry) : Register(x)
  \/ StartAll
  \/ StopAll
  \/ BulkSettles
  \/ \E a \in Agents : OnStartSettles(a)
  \/ \E a \in Agents : OnStopSettles(a)

SpecSlowPeer ==
  /\ Init /\ [][NextFleet]_vars
  /\ WF_vars(OnStartSettles(Peer)) /\ WF_vars(OnStopSettles(Peer))

\* The registry when every hook that is awaited eventually returns or
\* throws, and a bulk call whose per-agent promises have all settled goes on
\* (the event loop runs every continuation that is ready).
BulkSettlesOf(b) ==
  /\ b \in DOMAIN bulks
  /\ bulks[b].pc = "awaiting"
  /\ BulkSettles
  /\ bulks'[b].pc # "awaiting"

\* The caller registers its agents, then makes bulk calls.
NextBulk ==
  \/ \E x \in Agents \ Range(registry) : bulks = <<>> /\ Register(x)
  \/ StartAll
  \/ StopAll
  \/ BulkSettles
  \/ \E a \in Agents : OnStartSettles(a)
  \/ \E a \in Agents : OnStopSettles(a)

SpecFairHooks ==
  /\ Init /\ [][NextBulk]_vars
  /\ \A a \in Agents : WF_vars(OnStartSettles(a)) /\ WF_vars(OnStopSettles(a))
  /\ \A b \in 1..MaxBulk : WF_vars(BulkSettlesOf(b))

\* Shutdown: agents are registered, then a caller starts and stops one
\* registered agent directly, in any state, and starts the other; stopAll()
\* is called at any moment, also while calls are in flight (one stopAll() at
\* a time).
NextShutdown ==
  \/ \E x \in Agents \ Range(registry) :
       bulks = <<>> /\ (\A a \in Agents : agent[a].calls = <<>>) /\ Register(x)
  \/ Solo \in Range(registry) /\ Len(agent[Solo].calls) < MaxLife /\ Start(Solo)
  \/ Solo \in Range(registry) /\ Len(agent[Solo].calls) < MaxLife /\ Stop(Solo)
  \/ Peer \in Range(registry) /\ agent[Peer].calls = <<>> /\ Start(Peer)
  \/ (\A b \in DOMAIN bulks : bulks[b].pc # "awaiting") /\ StopAll
  \/ BulkSettles
  \/ \E a \in Agents : OnStartSettles(a)
  \/ \E a \in Agents : OnStopSettles(a)

SpecShutdown == Init /\ [][NextShutdown]_vars

\* The registry over agents whose configurations differ in the enabled
\* flag (every other field as in the tests).
InitEnabled ==
  /\ agent = [a \in Instances |-> NewAgent]
  /\ registry = <<>>
  /\ bulks = <<>>
  /\ thrown = "none"
  /\ lastRead = NothingSeen
  /\ config \in {[x \in Instances |->
                    IF x \in Agents THEN [ValidConfig(x) EXCEPT !.enabled = flag[x]]
                                    ELSE ValidConfig(x)] : flag \in [Agents -> BOOLEAN]}

SpecEnabled == InitEnabled /\ [][NextFleet]_vars

\* One agent on which 'error' events are emitted at any moment of its
\* lifecycle.
NextErrorEvent ==
  \/ Len(agent[Solo].calls) < MaxLife /\ Start(Solo)
  \/ Len(agent[Solo].calls) < MaxLife /\ Stop(Solo)
  \/ OnStartSettles(Solo)
  \/ OnStopSettles(Solo)
  \/ agent[Solo].ticks < MaxPoll /\ TimerFires(Solo)
  \/ HealthCheckSettles(Solo, TestAgentOutcomes)
  \/ ErrorEvent(Solo)

SpecErrorEvent == Init /\ [][NextErrorEvent]_vars

----------------------------------------------------------------------------
\* Steps of one agent, as the properties below refer to them

\* This step is a call of op on agent a (it adds the call's record).
Calls(a, op) ==
  /\ Len(agent'[a].calls) = Len(agent[a].calls) + 1
  /\ agent'[a].calls[Len(agent'[a].calls)].op = op

NewCall(a) == agent'[a].calls[Len(agent'[a].calls)]

\* This step resumes call c of agent a after its hook, and settles it as `to`.
Settles(a, c, hook, to) ==
  /\ c \in DOMAIN agent[a].calls
  /\ agent[a].calls[c].pc = hook
  /\ agent'[a].calls[c].pc = to

\* Nothing of the agent but the record of the call changes.
OnlyCallRecorded(a) == agent'[a] = [agent[a] EXCEPT !.calls = agent'[a].calls]

\* No hook is invoked in this step: no call starts to await one.
NoHookInvoked(a) == InFlight(agent'[a]) \subseteq InFlight(agent[a])

StateChanged(old, new) == Event("stateChanged", old, new)
Emitted(type) == Event(type, "none", "none")

ScheduledChecks(self) == {k \in self.checks : k.origin \in {"initial", "timer"}}
ActiveTimers(self) == {t \in DOMAIN self.timers : self.timers[t].active}

----------------------------------------------------------------------------
\* Properties

\* C1: on one agent no two lifecycle operations are in flight at once: at
\* most one start()/stop() call awaits its hook at any time, so onStart and
\* onStop never run concurrently.
C1_OneLifecycleCallInFlight ==
  \A a \in Agents : Cardinality(InFlight(agent[a])) <= 1

\* C2: at most one performHealthCheck invoked by the agent's own scheduling
\* (the initial check or a timer callback) is outstanding at any time.
C2_OneScheduledCheckOutstanding ==
  \A a \in Agents : Cardinality(ScheduledChecks(agent[a])) <= 1

\* C3: start() in a state other than stopped is rejected with an error that
\* carries the current state and changes nothing of the agent: no state
\* change, no event, no hook invoked, startedAt and the timer untouched.
C3_StartRejectedUnlessStopped ==
  [][\A a \in Agents :
       (Calls(a, "start") /\ agent[a].state # "stopped") =>
          /\ NewCall(a).pc = "rejected"
          /\ NewCall(a).err.message = "Cannot start agent in state"
          /\ NewCall(a).err.state = agent[a].state
          /\ OnlyCallRecorded(a)]_vars

C3_Witness ==
  \E c \in DOMAIN agent[Solo].calls :
    /\ agent[Solo].calls[c].op = "start"
    /\ agent[Solo].calls[c].pre = "running"
    /\ agent[Solo].calls[c].pc = "rejected"
    /\ agent[Solo].state = "running"

\* C4: start() on a stopped agent sets the state to starting, records
\* startedAt and awaits onStart; when onStart succeeds it sets the state to
\* running, schedules the health timer, and then emits one started event
\* (after the stateChanged event of the transition to running) and resolves.
C4_StartSucceeds ==
  [][\A a \in Agents :
       /\ (Calls(a, "start") /\ agent[a].state = "stopped") =>
             /\ agent'[a].state = "starting"
             /\ NewCall(a).pc = "onStart"
             /\ agent'[a].startedAt # 0
             /\ agent'[a].events = Append(agent[a].events, StateChanged("stopped", "starting"))
       /\ \A c \in DOMAIN agent[a].calls :
            Settles(a, c, "onStart", "resolved") =>
             /\ agent'[a].state = "running"
             /\ agent'[a].startedAt # 0
             /\ agent'[a].healthTimer \in ActiveTimers(agent'[a])
             /\ agent'[a].healthTimer \notin DOMAIN agent[a].timers
             /\ agent'[a].events = agent[a].events \o
                  <<StateChanged(agent[a].state, "running"), Emitted("started")>>]_vars

C4_Witness ==
  \E c \in DOMAIN agent[Solo].calls :
    /\ agent[Solo].calls[c].op = "start"
    /\ agent[Solo].calls[c].pc = "resolved"
    /\ agent[Solo].state = "running"
    /\ agent[Solo].events =
         <<StateChanged("stopped", "starting"), StateChanged("starting", "running"),
           Emitted("started")>>

\* C5: when onStart fails the state becomes error, the call is rejected with
\* the hook's error, no started event is emitted, no timer is scheduled and no
\* health check started, and onStart is not invoked again.
C5_StartFails ==
  [][\A a \in Agents : \A c \in DOMAIN agent[a].calls :
       Settles(a, c, "onStart", "rejected") =>
          /\ agent'[a].state = "error"
          /\ agent'[a].calls[c].err = OnStartError
          /\ agent'[a].events = Append(agent[a].events, StateChanged(agent[a].state, "error"))
          /\ agent'[a].timers = agent[a].timers
          /\ agent'[a].healthTimer = agent[a].healthTimer
          /\ agent'[a].checks = agent[a].checks
          /\ Len(agent'[a].calls) = Len(agent[a].calls)
          /\ NoHookInvoked(a)]_vars

C5_Witness ==
  \E c \in DOMAIN agent[Solo].calls :
    /\ agent[Solo].calls[c].op = "start"
    /\ agent[Solo].calls[c].pc = "rejected"
    /\ agent[Solo].calls[c].err = OnStartError
    /\ agent[Solo].state = "error"

\* C6: stop() cancels the health timer in the very step that sets the state
\* to stopping, before onStop is awaited (the call's record is at onStop with
\* no timer held and none active), and no timer fires in state stopping.
C6_TimerCancelledBeforeOnStop ==
  [][\A a \in Agents :
       /\ (Calls(a, "stop") /\ NewCall(a).pc = "onStop") =>
             /\ agent'[a].state = "stopping"
             /\ agent'[a].healthTimer = 0
             /\ ActiveTimers(agent'[a]) = {}
       /\ agent'[a].ticks # agent[a].ticks => agent[a].state # "stopping"
       /\ agent'[a].state = "stopping" => ActiveTimers(agent'[a]) = {}]_vars

C6_Witness ==
  /\ agent[Solo].state = "stopping"
  /\ agent[Solo].timers # <<>>
  /\ \E c \in InFlight(agent[Solo]) :
       agent[Solo].calls[c].op = "stop" /\ agent[Solo].calls[c].pre = "running"

\* C7: stop() in state stopped or stopping resolves at once and changes
\* nothing of the agent: onStop is not invoked, no state change, no event.
C7_StopIsNoOpWhenStoppedOrStopping ==
  [][\A a \in Agents :
       (Calls(a, "stop") /\ agent[a].state \in {"stopped", "stopping"}) =>
          /\ NewCall(a).pc = "resolved"
          /\ NewCall(a).err = NoError
          /\ OnlyCallRecorded(a)]_vars

\* stop() twice in succession on a running agent: the second finds it stopped.
C7_Witness ==
  \E c \in DOMAIN agent[Solo].calls :
    /\ c > 1
    /\ agent[Solo].calls[c].op = "stop"
    /\ agent[Solo].calls[c].pre = "stopped"
    /\ agent[Solo].calls[c].pc = "resolved"
    /\ agent[Solo].calls[c - 1].op = "stop"
    /\ agent[Solo].calls[c - 1].pre = "running"
    /\ agent[Solo].calls[c - 1].pc = "resolved"

\* C8: stop() on a running agent sets the state to stopping and awaits
\* onStop; when onStop succeeds it sets the state to stopped and then emits
\* one stopped event (after the stateChanged event) and resolves.
C8_StopSucceeds ==
  [][\A a \in Agents :
       /\ (Calls(a, "stop") /\ agent[a].state = "running") =>
             /\ agent'[a].state = "stopping"
             /\ NewCall(a).pc = "onStop"
             /\ agent'[a].events = Append(agent[a].events, StateChanged("running", "stopping"))
       /\ \A c \in DOMAIN agent[a].calls :
            Settles(a, c, "onStop", "resolved") =>
             /\ agent'[a].state = "stopped"
             /\ agent'[a].events = agent[a].events \o
                  <<StateChanged(agent[a].state, "stopped"), Emitted("stopped")>>]_vars

C8_Witness ==
  \E c \in DOMAIN agent[Solo].calls :
    /\ agent[Solo].calls[c].op = "stop"
    /\ agent[Solo].calls[c].pre = "running"
    /\ agent[Solo].calls[c].pc = "resolved"
    /\ agent[Solo].state = "stopped"
    /\ SubSeq(agent[Solo].events, Len(agent[Solo].events) - 2, Len(agent[Solo].events)) =
         <<StateChanged("running", "stopping"), StateChanged("stopping", "stopped"),
           Emitted("stopped")>>

\* C9: when onStop fails the state becomes error, the call is rejected with
\* the hook's error, no stopped event is emitted, and onStop is not invoked
\* again.
C9_StopFails ==
  [][\A a \in Agents : \A c \in DOMAIN agent[a].calls :
       Settles(a, c, "onStop", "rejected") =>
          /\ agent'[a].state = "error"
          /\ agent'[a].calls[c].err = OnStopError
          /\ agent'[a].events = Append(agent[a].events, StateChanged(agent[a].state, "error"))
          /\ Len(agent'[a].calls) = Len(agent[a].calls)
          /\ NoHookInvoked(a)]_vars

C9_Witness ==
  \E c \in DOMAIN agent[Solo].calls :
    /\ agent[Solo].calls[c].op = "stop"
    /\ agent[Solo].calls[c].pc = "rejected"
    /\ agent[Solo].calls[c].err = OnStopError
    /\ agent[Solo].state = "error"

\* What holds of the startAll() calls in a state: none has rejected, and a
\* resolved one lists every agent whose start() was rejected in failed and
\* every agent whose start() resolved in successful, none in both.  An agent
\* that was stopped with no lifecycle call in flight when startAll() was
\* called, and on which no other lifecycle call was made since, is then in
\* state error if its onStart failed and in state running if it succeeded.
StartAllOutcome ==
  \A b \in DOMAIN bulks :
    LET B == bulks[b]
        Who(i) == B.subs[i].agent
        TheCall(i) == agent[Who(i)].calls[B.subs[i].call]
        Undisturbed(i) == /\ TheCall(i).pre = "stopped"
                          /\ ~TheCall(i).busy
                          /\ B.subs[i].call = Len(agent[Who(i)].calls)
    IN /\ B.pc \in {"awaiting", "resolved"}
       /\ (B.op = "startAll" /\ B.pc = "resolved") =>
            \A i \in DOMAIN B.subs :
              /\ TheCall(i).pc = "rejected" =>
                   /\ IdOf(Who(i)) \in Range(B.failed)
                   /\ IdOf(Who(i)) \notin Range(B.successful)
                   /\ Undisturbed(i) =>
                        TheCall(i).err = OnStartError /\ agent[Who(i)].state = "error"
              /\ TheCall(i).pc = "resolved" =>
                   /\ IdOf(Who(i)) \in Range(B.successful)
                   /\ IdOf(Who(i)) \notin Range(B.failed)
                   /\ Undisturbed(i) => agent[Who(i)].state = "running"

\* What holds of the steps of startAll(): the call makes a start() attempt on
\* every registered agent, and invokes onStart on every one that is stopped,
\* whatever the other agents do; an attempt whose onStart fails leaves its
\* agent in error, one whose onStart succeeds leaves it in running.
StartAllStep ==
  /\ (Len(bulks') = Len(bulks) + 1 /\ bulks'[Len(bulks')].op = "startAll") =>
        /\ Len(bulks'[Len(bulks')].subs) = Len(registry)
        /\ \A x \in Range(registry) :
             /\ Calls(x, "start")
             /\ NewCall(x).by = Len(bulks')
             /\ agent[x].state = "stopped" => NewCall(x).pc = "onStart"
  /\ \A a \in Agents : \A c \in DOMAIN agent[a].calls :
        agent[a].calls[c].by # 0 =>
          /\ Settles(a, c, "onStart", "rejected") =>
               agent'[a].state = "error" /\ agent'[a].calls[c].err = OnStartError
          /\ Settles(a, c, "onStart", "resolved") => agent'[a].state = "running"

SubCall(b, i) == agent[bulks[b].subs[i].agent].calls[bulks[b].subs[i].call]
SubAgent(b, i) == bulks[b].subs[i].agent
OnStartFailedIn(b) == {i \in DOMAIN bulks[b].subs : SubCall(b, i).err = OnStartError}

StartAllPartition ==
  \A b \in DOMAIN bulks :
    (bulks[b].op = "startAll" /\ bulks[b].pc = "resolved") =>
       LET ids == {IdOf(SubAgent(b, i)) : i \in DOMAIN bulks[b].subs}
       IN /\ Range(bulks[b].successful) \cup Range(bulks[b].failed) = ids
          /\ Range(bulks[b].successful) \cap Range(bulks[b].failed) = {}
          /\ Len(bulks[b].successful) + Len(bulks[b].failed) = Cardinality(ids)
          /\ "unknown" \notin Range(bulks[b].successful) \cup Range(bulks[b].failed)
          /\ \A i \in DOMAIN bulks[b].subs :
               IdOf(SubAgent(b, i)) \in Range(bulks[b].successful)
                 <=> SubCall(b, i).pc = "resolved"

\* The agents a startAll() call starts are those registered when it is called.
StartAllTakesRegistered ==
  (Len(bulks') = Len(bulks) + 1 /\ bulks'[Len(bulks')].op = "startAll") =>
     [i \in DOMAIN bulks'[Len(bulks')].subs |-> bulks'[Len(bulks')].subs[i].agent] = registry

\* C12: the result of startAll() partitions the agents registered at the
\* time of the call: every such identifier is in exactly one of successful
\* and failed, in successful exactly when that agent's start() resolved, and
\* no other value (no placeholder) is in either list.
C12_StartAllResultPartitions == []StartAllPartition /\ [][StartAllTakesRegistered]_vars

\* A call made with one agent registered, the other registered afterwards:
\* the result names the first agent only.
C12_Witness ==
  /\ Len(registry) = 2
  /\ \E b \in DOMAIN bulks :
       /\ bulks[b].op = "startAll" /\ bulks[b].pc = "resolved"
       /\ Len(bulks[b].subs) = 1
       /\ Len(bulks[b].successful) + Len(bulks[b].failed) = 1

\* What holds of the stopAll() calls in a state: none has rejected; when one
\* has resolved, an agent that was running with no lifecycle call in flight
\* when stopAll() was called, and on which no other lifecycle call was made
\* since, is in state error if its onStop threw and in state stopped if its
\* onStop succeeded.
StopAllOutcome ==
  \A b \in DOMAIN bulks :
    bulks[b].op = "stopAll" =>
      /\ bulks[b].pc \in {"awaiting", "resolved"}
      /\ bulks[b].pc = "resolved" =>
           \A i \in DOMAIN bulks[b].subs :
             (/\ SubCall(b, i).pre = "running"
              /\ ~SubCall(b, i).busy
              /\ bulks[b].subs[i].call = Len(agent[SubAgent(b, i)].calls)) =>
                /\ SubCall(b, i).pc \in {"resolved", "rejected"}
                /\ SubCall(b, i).pc = "rejected" =>
                     SubCall(b, i).err = OnStopError /\ agent[SubAgent(b, i)].state = "error"
                /\ SubCall(b, i).pc = "resolved" => agent[SubAgent(b, i)].state = "stopped"

\* What holds of the steps of stopAll(): the call makes a stop() attempt on
\* every registered agent in the same step, and invokes onStop on every one
\* that is neither stopped nor stopping; an attempt whose onStop throws
\* leaves its agent in error, one whose onStop succeeds leaves it in stopped.
StopAllStep ==
  /\ (Len(bulks') = Len(bulks) + 1 /\ bulks'[Len(bulks')].op = "stopAll") =>
        /\ Len(bulks'[Len(bulks')].subs) = Len(registry)
        /\ \A x \in Range(registry) :
             /\ Calls(x, "stop")
             /\ NewCall(x).by = Len(bulks')
             /\ agent[x].state \notin {"stopped", "stopping"} => NewCall(x).pc = "onStop"
  /\ \A a \in Agents : \A c \in DOMAIN agent[a].calls :
        agent[a].calls[c].by # 0 =>
          /\ Settles(a, c, "onStop", "rejected") =>
               agent'[a].state = "error" /\ agent'[a].calls[c].err = OnStopError
          /\ Settles(a, c, "onStop", "resolved") => agent'[a].state = "stopped"

\* C13: stopAll() never raises and gives every registered agent a stop
\* attempt: when one agent's onStop throws, stopAll() still resolves, that
\* agent ends in error, and every other registered running agent whose
\* onStop succeeds ends in stopped.
C13_StopAllNeverRaises == []StopAllOutcome /\ [][StopAllStep]_vars

\* Both agents running, one onStop throws and the other succeeds.
C13_Witness ==
  \E b \in DOMAIN bulks :
    /\ bulks[b].op = "stopAll" /\ bulks[b].pc = "resolved"
    /\ \E i, j \in DOMAIN bulks[b].subs :
         /\ SubCall(b, i).pre = "running" /\ SubCall(b, i).err = OnStopError
         /\ agent[SubAgent(b, i)].state = "error"
         /\ SubCall(b, j).pre = "running" /\ SubCall(b, j).pc = "resolved"
         /\ agent[SubAgent(b, j)].state = "stopped"

\* A bulk call invokes the hook of every registered agent it has to start
\* (or stop) in its one step: when the step is over every such agent's
\* call awaits its hook, and none of these hooks has completed.
HooksInvokedTogether ==
  Len(bulks') = Len(bulks) + 1 =>
    \A x \in Range(registry) :
      /\ Len(agent'[x].calls) = Len(agent[x].calls) + 1
      /\ (bulks'[Len(bulks')].op = "startAll" /\ agent[x].state = "stopped") =>
            NewCall(x).pc = "onStart" /\ agent'[x].state = "starting"
      /\ (bulks'[Len(bulks')].op = "stopAll" /\ agent[x].state \in {"running", "starting", "error"}) =>
            NewCall(x).pc = "onStop" /\ agent'[x].state = "stopping"

\* A call of a bulk operation on the peer that awaits its hook completes,
\* whatever the hooks of the other agent do.
PeerCompletes ==
  \A c \in 1..MaxCalls :
    (c \in DOMAIN agent[Peer].calls /\ agent[Peer].calls[c].pc \in {"onStart", "onStop"})
      ~> (c \in DOMAIN agent[Peer].calls /\ agent[Peer].calls[c].pc \in {"resolved", "rejected"})

\* C14: startAll() and stopAll() run the per-agent operations concurrently:
\* every registered agent's hook is invoked before any hook has to complete,
\* so an agent whose hook is slow or never completes does not keep another
\* agent from completing its start (or stop).
C14_BulkOperationsRunConcurrently == [][HooksInvokedTogether]_vars /\ PeerCompletes

\* Agent "a" still awaits the onStart that startAll() invoked, and the peer
\* started by the same call is running.
C14_Witness ==
  \E b \in DOMAIN bulks :
    /\ bulks[b].op = "startAll" /\ bulks[b].pc = "awaiting"
    /\ Len(bulks[b].subs) = 2
    /\ \E i, j \in DOMAIN bulks[b].subs :
         /\ SubAgent(b, i) # Peer /\ SubCall(b, i).pc = "onStart"
         /\ SubAgent(b, j) = Peer /\ SubCall(b, j).pc = "resolved"
         /\ agent[Peer].state = "running"

\* This step is the return of check k of agent a: its performHealthCheck has
\* settled and checkHealth() ran to its end.
Completes(a, k) == k \in agent[a].checks /\ k \notin agent'[a].checks
Unhealthy(message) == [status |-> "unhealthy", message |-> message]

\* C15: when performHealthCheck throws or rejects, checkHealth() does not
\* propagate: it returns an unhealthy HealthCheck carrying the error's
\* message (a fixed message when what was thrown is not an Error), caches it
\* as the most recent health and emits one unhealthy event; the lifecycle
\* state is unchanged.
C15_HookFailureBecomesUnhealthy ==
  [][\A a \in Agents : \A k \in agent[a].checks :
       (Completes(a, k) /\ agent'[a].outcome \in ThrowOutcomes) =>
          /\ agent'[a].returned =
               Unhealthy(IF agent'[a].outcome = "throws" THEN ThrownMessage
                                                          ELSE FallbackMessage)
          /\ agent'[a].lastHealthCheck = agent'[a].returned
          /\ agent'[a].unhealthy = agent[a].unhealthy + 1
          /\ agent'[a].state = agent[a].state
          /\ agent'[a].events = agent[a].events
          /\ agent'[a].calls = agent[a].calls]_vars

\* A direct checkHealth() on a running agent whose hook threw an Error.
C15_Witness ==
  /\ agent[Solo].state = "running"
  /\ agent[Solo].direct = 1
  /\ agent[Solo].checks = {}
  /\ agent[Solo].outcome = "throws"
  /\ agent[Solo].lastHealthCheck = Unhealthy(ThrownMessage)
  /\ agent[Solo].unhealthy >= 1

\* The HealthCheck a performHealthCheck that returns hands back.
Reported(status) == [status |-> status, message |-> "reported"]

\* This step is the return of a direct checkHealth() call made while the
\* agent was stopped.
StoppedCheckCompletes(a, k) ==
  Completes(a, k) /\ k.origin = "direct" /\ k.pre = "stopped"

\* C16 as stated: checkHealth() called while the agent is stopped reports
\* whatever performHealthCheck returns, or a result with status unknown if
\* the hook itself throws.
C16_StoppedCheckUnknownOnThrow ==
  [][\A a \in Agents : \A k \in agent[a].checks :
       StoppedCheckCompletes(a, k) =>
          IF agent'[a].outcome \in ThrowOutcomes
          THEN agent'[a].returned.status = "unknown"
          ELSE agent'[a].returned = Reported(agent'[a].outcome)]_vars

\* C16 as amended: checkHealth() called while the agent is stopped is
\* permitted and reports whatever performHealthCheck returns, or a result
\* with status unhealthy carrying the error's message if the hook throws.
C16_StoppedCheckUnhealthyOnThrow ==
  [][\A a \in Agents :
       /\ \A k \in agent[a].checks :
            StoppedCheckCompletes(a, k) =>
               IF agent'[a].outcome \in ThrowOutcomes
               THEN agent'[a].returned =
                      Unhealthy(IF agent'[a].outcome = "throws" THEN ThrownMessage
                                                                 ELSE FallbackMessage)
               ELSE agent'[a].returned = Reported(agent'[a].outcome)
       /\ (agent[a].state = "stopped" /\ agent'[a].direct = agent[a].direct + 1) =>
            /\ [origin |-> "direct", n |-> agent'[a].direct, pre |-> "stopped"]
                  \in agent'[a].checks
            /\ agent'[a].state = "stopped"]_vars

\* A never-started agent whose direct check has returned after the hook threw.
C16_Witness ==
  /\ agent[Solo].calls = <<>>
  /\ agent[Solo].state = "stopped"
  /\ agent[Solo].direct = 1
  /\ agent[Solo].checks = {}
  /\ agent[Solo].outcome = "throws"
  /\ agent[Solo].returned = Unhealthy(ThrownMessage)

\* C17: checkHealth() may be called in any lifecycle state and never changes
\* the lifecycle state or the timer, neither when it is called nor when it
\* returns; every completed check replaces the cached most-recent health
\* with its result whatever the status, and an unhealthy event is emitted
\* exactly when the result's status is unhealthy.
C17_CheckHealthOnlyCachesAndReports ==
  [][\A a \in Agents :
       /\ agent'[a].direct = agent[a].direct + 1 =>
            /\ agent'[a] = [agent[a] EXCEPT !.direct = agent'[a].direct,
                                            !.checks = agent'[a].checks]
            /\ agent'[a].checks = agent[a].checks \cup
                 {[origin |-> "direct", n |-> agent'[a].direct, pre |-> agent[a].state]}
       /\ \A k \in agent[a].checks :
            Completes(a, k) =>
              /\ agent'[a].state = agent[a].state
              /\ agent'[a].healthTimer = agent[a].healthTimer
              /\ ActiveTimers(agent'[a]) = ActiveTimers(agent[a])
              /\ agent'[a].events = agent[a].events
              /\ agent'[a].returned.status =
                   (IF agent'[a].outcome \in ThrowOutcomes THEN "unhealthy"
                                                            ELSE agent'[a].outcome)
              /\ agent'[a].lastHealthCheck = agent'[a].returned
              /\ agent'[a].unhealthy =
                   agent[a].unhealthy +
                     (IF agent'[a].returned.status = "unhealthy" THEN 1 ELSE 0)]_vars

\* A check called while the agent was stopping has returned degraded: it is
\* the cached health and no unhealthy event was emitted.
C17_Witness ==
  /\ agent[Solo].direct = 1
  /\ agent[Solo].checks = {}
  /\ agent[Solo].state = "stopping"
  /\ agent[Solo].outcome = "degraded"
  /\ agent[Solo].lastHealthCheck = Reported("degraded")
  /\ agent[Solo].unhealthy = 0

\* C18: an initial health check is triggered in the very step in which the
\* agent enters running, with no timer firing, and its failure never aborts
\* startup: when performHealthCheck throws on that check, the start() call
\* stays resolved, the state is unchanged and the started event stays
\* emitted (only the cached health and the unhealthy event change).
C18_InitialCheckNeverAbortsStartup ==
  [][\A a \in Agents :
       /\ \A c \in DOMAIN agent[a].calls :
            Settles(a, c, "onStart", "resolved") =>
              /\ agent'[a].state = "running"
              /\ agent'[a].ticks = agent[a].ticks
              /\ [origin |-> "initial", n |-> agent'[a].healthTimer, pre |-> "running"]
                    \in agent'[a].checks \ agent[a].checks
              /\ agent'[a].events[Len(agent'[a].events)] = Emitted("started")
       /\ \A k \in agent[a].checks :
            (Completes(a, k) /\ k.origin = "initial" /\ agent'[a].outcome \in ThrowOutcomes) =>
              /\ agent'[a].state = agent[a].state
              /\ agent'[a].calls = agent[a].calls
              /\ agent'[a].events = agent[a].events
              /\ agent'[a].healthTimer = agent[a].healthTimer
              /\ ActiveTimers(agent'[a]) = ActiveTimers(agent[a])]_vars

\* The first check threw before any timer firing: the agent is running, its
\* start() resolved and started was emitted.
C18_Witness ==
  /\ agent[Solo].ticks = 0
  /\ agent[Solo].checks = {}
  /\ agent[Solo].outcome = "throws"
  /\ agent[Solo].lastHealthCheck = Unhealthy(ThrownMessage)
  /\ agent[Solo].state = "running"
  /\ Len(agent[Solo].calls) = 1
  /\ agent[Solo].calls[1].pc = "resolved"
  /\ agent[Solo].events[Len(agent[Solo].events)] = Emitted("started")
  /\ agent[Solo].healthTimer \in ActiveTimers(agent[Solo])

\* The first health-check cycle of x has completed: its first timer exists
\* and the initial check made with it has returned.
FirstCycleDone(x) ==
  /\ agent[x].timers # <<>>
  /\ \A k \in agent[x].checks : ~(k.origin = "initial" /\ k.n = 1)

\* C19: after startAll() on a registry holding a (health hook healthy) and
\* b (health hook failing with message "down"), once an agent's first
\* health-check cycle has completed getAll() shows a with health healthy
\* and b with health unhealthy and message "down", each in state running.
C19_GetAllShowsHealthAfterFirstCycle ==
  \A i \in DOMAIN getAll :
    FirstCycleDone(registry[i]) =>
      /\ getAll[i].state = "running"
      /\ getAll[i].id = IdOf("a") => getAll[i].health.status = "healthy"
      /\ getAll[i].id = IdOf("b") => getAll[i].health = Unhealthy("down")

\* Both started by one startAll(), both first cycles completed.
C19_Witness ==
  /\ Len(registry) = 2
  /\ Len(bulks) = 1 /\ bulks[1].op = "startAll" /\ bulks[1].pc = "resolved"
  /\ Len(bulks[1].successful) = 2
  /\ \A x \in Agents : FirstCycleDone(x) /\ agent[x].checks = {}
  /\ \E i, j \in DOMAIN getAll :
       /\ getAll[i].id = IdOf("a") /\ getAll[i].health.status = "healthy"
       /\ getAll[j].id = IdOf("b") /\ getAll[j].health.status = "unhealthy"

\* The stateChanged events agent a has emitted, in emission order.
StateChanges(self) == SelectSeq(self.events, LAMBDA e : e.type = "stateChanged")

\* The stateChanged events form the chain of the transitions: the first
\* starts from stopped, each later one starts where the one before ended,
\* and the last ends in the current state.
StateChangesChain ==
  \A a \in Agents :
    LET sc == StateChanges(agent[a])
    IN /\ sc # <<>> => sc[1].oldState = "stopped"
       /\ \A i \in 1..(Len(sc) - 1) : sc[i + 1].oldState = sc[i].newState
       /\ agent[a].state = (IF sc = <<>> THEN "stopped" ELSE sc[Len(sc)].newState)

\* A step emits a stateChanged event exactly for the transition it makes,
\* carrying the state before and the state after.
OneEventPerTransition ==
  \A a \in Agents :
    LET sc == StateChanges(agent[a])
        scNext == StateChanges(agent'[a])
    IN /\ scNext = sc \/ scNext = Append(sc, StateChanged(agent[a].state, agent'[a].state))
       /\ agent'[a].state # agent[a].state => scNext # sc

\* C20: within one agent, stateChanged events are emitted in exactly the
\* order the transitions occur, one per transition, each carrying the old
\* and the new state: the first event's oldState is stopped and each later
\* event's oldState is the newState of the event before it, under any
\* interleaving of operations.
C20_StateChangedFollowsTransitions == []StateChangesChain /\ [][OneEventPerTransition]_vars

\* Transitions made by overlapping calls: a stop() found a start() awaiting
\* its hook, and both have since moved the state.
C20_Witness ==
  /\ Len(StateChanges(agent[Solo])) >= 4
  /\ \E c \in DOMAIN agent[Solo].calls :
       /\ agent[Solo].calls[c].busy
       /\ agent[Solo].calls[c].op = "stop"
       /\ agent[Solo].calls[c].pc # "onStop"
  /\ InFlight(agent[Solo]) = {}

\* The health record getInfo() gives when no check has completed.
NoCheckYet == [status |-> "unknown", message |-> "No health check performed yet"]

\* C21: an agent that has never completed a health check reports, through
\* getInfo() and getAll(), health of status unknown with an explanatory
\* message, in every lifecycle state; the health reported is never absent,
\* and healthy only once a check has completed.
C21_UnknownHealthBeforeFirstCheck ==
  /\ \A x \in Agents :
       /\ getInfo(x).health.status \in HealthStatus
       /\ agent[x].outcome = "none" => getInfo(x).health = NoCheckYet
  /\ \A i \in DOMAIN getAll :
       /\ getAll[i].health.status \in HealthStatus
       /\ agent[registry[i]].outcome = "none" => getAll[i].health = NoCheckYet

\* Two registered agents that have completed no check, one running with
\* its initial check outstanding and one in error.
C21_Witness ==
  /\ Len(getAll) = 2
  /\ \A i \in DOMAIN getAll : agent[registry[i]].outcome = "none"
  /\ \E i, j \in DOMAIN getAll :
       /\ getAll[i].state = "running" /\ agent[registry[i]].checks # {}
       /\ getAll[j].state = "error"
       /\ getAll[i].health.status = "unknown" /\ getAll[j].health.status = "unknown"

\* C22: getInfo(), get() and getAll() are pure reads that always succeed: a
\* read changes neither an agent (state, timer, startedAt, cached health,
\* events) nor the registry; getAll() returns one snapshot per registered
\* agent with the agent's state at the time of the call, get() the instance
\* stored under the identifier or undefined, and what was returned does
\* not change when the agent later transitions.
C22_ReadsArePure ==
  [][/\ lastRead' # lastRead =>
          /\ agent' = agent /\ registry' = registry
          /\ bulks' = bulks /\ thrown' = thrown
          /\ lastRead'.op = "getAll" =>
               /\ Len(lastRead'.value) = Len(registry)
               /\ \A i \in DOMAIN registry :
                    /\ lastRead'.value[i].id = IdOf(registry[i])
                    /\ lastRead'.value[i].state = agent[registry[i]].state
          /\ lastRead'.op = "getInfo" =>
               /\ lastRead'.value[1].id = IdOf(lastRead'.arg)
               /\ lastRead'.value[1].state = agent[lastRead'.arg].state
          /\ lastRead'.op = "get" =>
               lastRead'.value =
                 (IF \E x \in Range(registry) : IdOf(x) = lastRead'.arg
                  THEN <<CHOOSE x \in Range(registry) : IdOf(x) = lastRead'.arg>>
                  ELSE <<>>)
     /\ (agent' # agent \/ registry' # registry) => lastRead' = lastRead]_vars

\* A snapshot taken by getAll() while the agent was starting still says
\* starting after the agent has become running.
C22_Witness ==
  /\ lastRead.op = "getAll"
  /\ Len(lastRead.value) = 2
  /\ \E i \in DOMAIN lastRead.value :
       /\ lastRead.value[i].id = IdOf(Solo)
       /\ lastRead.value[i].state = "starting"
  /\ agent[Solo].state = "running"

\* The identifiers registered, and the registry holding one agent per
\* identifier.
RegisteredIds == {IdOf(x) : x \in Range(registry)}
UniqueIds ==
  \A i, j \in DOMAIN registry : i # j => IdOf(registry[i]) # IdOf(registry[j])

\* A register() call that fails changes nothing, and a register() call that
\* stores an agent stores one whose identifier was not registered.
RegisterStep ==
  /\ (thrown' # thrown /\ thrown' = "already registered") =>
        agent' = agent /\ registry' = registry
  /\ Len(registry') > Len(registry) =>
        /\ registry' = Append(registry, registry'[Len(registry')])
        /\ IdOf(registry'[Len(registry')]) \notin RegisteredIds
        /\ thrown' = "none"
  /\ \A x \in Instances :
        agent'[x].listeners # agent[x].listeners =>
          registry' = Append(registry, x) /\ agent'[x].listeners = agent[x].listeners + 1

\* C23: register(agent) fails when an agent with the same identifier is
\* already registered and then leaves the registry unchanged (the instance
\* registered before stays, no forwarding handler is added); after any
\* sequence of register/unregister calls the registry holds at most one
\* agent per identifier.
C23_RegisterRejectsDuplicates == []UniqueIds /\ [][RegisterStep]_vars

\* The twin of "a" was refused: "a" is still the instance registered and
\* the twin has no forwarding handler.
C23_Witness ==
  /\ thrown = "already registered"
  /\ get(IdOf(Twin)) = <<"a">>
  /\ agent[Twin].listeners = 0
  /\ agent["a"].listeners = 1

\* An unregister() call that fails changes nothing; one that succeeds
\* removes one entry, keeps the others in their order and touches no agent.
UnregisterStep ==
  /\ (thrown' # thrown /\ thrown' = "not registered") =>
        agent' = agent /\ registry' = registry
  /\ Len(registry') < Len(registry) =>
        /\ \E i \in DOMAIN registry :
             registry' = SubSeq(registry, 1, i - 1) \o SubSeq(registry, i + 1, Len(registry))
        /\ agent' = agent
        /\ thrown' = "none"

\* An agent that is running and not registered holds an active timer, and
\* that timer can fire.
UnregisteredKeepsRunning ==
  \A x \in Instances :
    (x \notin Range(registry) /\ agent[x].state = "running") =>
       /\ agent[x].healthTimer \in ActiveTimers(agent[x])
       /\ agent[x].ticks < MaxPoll => ENABLED TimerFires(x)

\* C24: unregister(id) fails when no agent with that identifier is
\* registered, leaving the registry unchanged; otherwise it removes exactly
\* that entry and does not stop the agent: its state, timer and cached
\* health are unchanged, so a running agent keeps running and keeps being
\* health-checked after it is unregistered.
C24_UnregisterOnlyRemoves == []UnregisteredKeepsRunning /\ [][UnregisterStep]_vars

\* The agent was registered and is registered no more; it is running, its
\* timer is active and has fired, and a check has completed.
C24_Witness ==
  /\ agent[Solo].listeners = 1
  /\ get(IdOf(Solo)) = <<>>
  /\ thrown = "none"
  /\ agent[Solo].state = "running"
  /\ agent[Solo].healthTimer \in ActiveTimers(agent[Solo])
  /\ agent[Solo].ticks >= 1
  /\ agent[Solo].outcome # "none"

\* C25: round trip: for any registry and any agent whose identifier is not
\* yet registered, register(agent) followed by unregister(agent.id)
\* succeeds, and afterwards get(agent.id) returns undefined and the set of
\* registered identifiers (indeed the whole Map) is what it was before.
C25_RegisterUnregisterRoundTrip ==
  \A x \in Instances :
    ~MapHas(registry, IdOf(x)) =>
       LET stored == register(registry, x)
           removed == unregister(stored.agents, IdOf(x))
       IN /\ stored.threw = "none"
          /\ MapGet(stored.agents, IdOf(x)) = <<x>>
          /\ removed.threw = "none"
          /\ MapGet(removed.agents, IdOf(x)) = <<>>
          /\ {IdOf(y) : y \in Range(removed.agents)} = RegisteredIds
          /\ removed.agents = registry

\* The round trip made on a registry that holds another agent: the twin was
\* registered and unregistered again while "b" stays registered.
C25_Witness ==
  /\ agent[Twin].listeners = 1
  /\ get(IdOf(Twin)) = <<>>
  /\ registry = <<"b">>
  /\ thrown = "none"

\* How many events of a type agent x has emitted.
EmittedCount(self, type) ==
  IF type = "unhealthy" THEN self.unhealthy
  ELSE Len(SelectSeq(self.events, LAMBDA e : e.type = type))

\* In every step, for every registered agent and each of started, stopped
\* and unhealthy: an event emitted by the agent is re-emitted by the
\* registry, with the payload the agent emitted; nothing else is re-emitted
\* (a step that emits only stateChanged events re-emits nothing).
ForwardingStep ==
  \A x \in Range(registry) :
    /\ agent[x].listeners >= 1
    /\ \A type \in {"started", "stopped", "unhealthy"} :
         LET emitted == EmittedCount(agent'[x], type) - EmittedCount(agent[x], type)
         IN /\ emitted \in {0, 1}
            /\ agent'[x].forwarded[type] =
                 agent[x].forwarded[type] + emitted * agent[x].listeners
            /\ emitted = 1 =>
                 agent'[x].relayed[type] =
                   (IF type = "unhealthy" THEN agent'[x].lastHealthCheck ELSE Emitted(type))
    /\ DOMAIN agent'[x].forwarded = {"started", "stopped", "unhealthy"}

WellFormedVersion(v) ==
  \E i, j \in 1..Len(v) :
    /\ 1 < i /\ i + 1 < j /\ j < Len(v)
    /\ \A k \in 1..Len(v) : IF k \in {i, j} THEN v[k] = "." ELSE v[k] \in Digits

\* A configuration that fails validation.
FailsValidation(cfg) ==
  \/ cfg.id = ""
  \/ cfg.name = ""
  \/ ~WellFormedVersion(cfg.version)
  \/ cfg.healthCheckInterval <= 0
  \/ cfg.maxRetries < 0
  \/ cfg.timeout <= 0

\* A step that constructs an object of x, or fails to.
ConstructStep(x) ==
  /\ (thrown' # thrown /\ thrown' = InvalidConfiguration) =>
       /\ agent' = agent
       /\ registry' = registry
  /\ (x \in DOMAIN agent' /\ x \notin DOMAIN agent) =>
       /\ ~FailsValidation(config[x])
       /\ thrown' = "none"
       /\ agent'[x] = NewAgent
       /\ agent'[x].state = "stopped"
       /\ \A y \in DOMAIN agent : agent'[y] = agent[y]

\* C27: for every configuration that fails validation (empty identifier,
\* version not of the form MAJOR.MINOR.PATCH, non-positive health-check
\* interval), constructing an agent throws the invalid-configuration error
\* and no object exists that could be started or registered; a configuration
\* passing validation yields an agent in state stopped.
C27_ConstructorValidates ==
  /\ [](\A x \in Agents :
         /\ FailsValidation(config[x]) <=>
              constructor(config[x]) = [threw |-> InvalidConfiguration, self |-> <<>>]
         /\ FailsValidation(config[x]) =>
              /\ x \notin DOMAIN agent
              /\ x \notin Range(registry)
              /\ thrown \in {"none", InvalidConfiguration}
         /\ (~FailsValidation(config[x]) /\ x \notin DOMAIN agent) =>
              constructor(config[x]).self = <<NewAgent>>)
  /\ [][\A x \in Agents : ConstructStep(x)]_vars

\* Constructing Peer yielded an object in state stopped; constructing Solo
\* with an ill-formed version threw, and no object of Solo exists.
C27_Witness ==
  /\ Peer \in DOMAIN agent /\ agent[Peer].state = "stopped"
  /\ Solo \notin DOMAIN agent
  /\ thrown = InvalidConfiguration
  /\ config[Solo] = [ValidConfig(Solo) EXCEPT !.version = <<"1", ".", "1">>]

\* Every bulk call eventually completes: no call is left awaiting its
\* per-agent attempts from some moment on (a call, once made, is never
\* unmade, and a completed call stays completed).
BulkCompletes ==
  \A b \in 1..MaxBulk :
    []<>(b \in DOMAIN bulks => bulks[b].pc \in {"resolved", "rejected"})

\* A bulk call has completed only if every attempt it launched has resolved:
\* while the hook of one of them is awaited, the call is awaiting.
CompletesAfterAttempts ==
  \A b \in DOMAIN bulks :
    (\E i \in DOMAIN bulks[b].subs : SubCall(b, i).pc \in {"onStart", "onStop"})
      => bulks[b].pc = "awaiting"

\* C28: if every onStart and onStop hook eventually returns or throws, every
\* startAll() and stopAll() call eventually completes, and it completes only
\* after every per-agent attempt it launched has resolved: a call whose
\* agent's hook has not completed has not completed.
C28_BulkCallsTerminate == BulkCompletes /\ []CompletesAfterAttempts

\* A startAll() and a stopAll() over two agents have both completed, the
\* hooks of all their attempts having settled, one of them by throwing.
C28_Witness ==
  \E b, d \in DOMAIN bulks :
    /\ bulks[b].op = "startAll" /\ bulks[b].pc = "resolved"
    /\ bulks[d].op = "stopAll" /\ bulks[d].pc \in {"resolved", "rejected"}
    /\ Len(bulks[b].subs) = 2 /\ Len(bulks[d].subs) = 2
    /\ \A i \in DOMAIN bulks[b].subs : SubCall(b, i).pc \in {"resolved", "rejected"}
    /\ \E i \in DOMAIN bulks[b].subs : SubCall(b, i).err = OnStartError
    /\ \A i \in DOMAIN bulks[d].subs : SubCall(d, i).pc \in {"resolved", "rejected"}

\* A step of agent a taken in state error: start() is rejected and leaves
\* the state error; stop() moves to stopping and invokes onStop.
ErrorStep(a) ==
  agent[a].state = "error" =>
    /\ Calls(a, "start") =>
         /\ NewCall(a).pc = "rejected"
         /\ NewCall(a).err.state = "error"
         /\ agent'[a].state = "error"
    /\ Calls(a, "stop") =>
         /\ NewCall(a).pc = "onStop"
         /\ agent'[a].state = "stopping"

\* The state error is left by a stop() call and by nothing else.
ErrorLeftByStop(a) ==
  (agent[a].state = "error" /\ agent'[a].state # "error") => Calls(a, "stop")

\* A stop() called in state error whose onStop succeeds ends in stopped,
\* and in stopped start() is accepted.
RecoveryStep(a) ==
  /\ \A c \in DOMAIN agent[a].calls :
       (agent[a].calls[c].pre = "error" /\ Settles(a, c, "onStop", "resolved")) =>
         agent'[a].state = "stopped"
  /\ (agent[a].state = "stopped" /\ Calls(a, "start")) =>
       NewCall(a).pc = "onStart" /\ agent'[a].state = "starting"

\* stopped is reachable from every lifecycle state: from starting, running
\* and error a stop() leads to stopping, and in stopping an onStop is
\* awaited whose success leads to stopped.
StoppedReachable(a) ==
  /\ agent[a].state \in {"starting", "running", "error"} =>
       stop(agent[a], 0).state = "stopping"
  /\ agent[a].state = "stopping" =>
       \E c \in DOMAIN agent[a].calls :
         /\ agent[a].calls[c].pc = "onStop"
         /\ stopResume(agent[a], c, TRUE).state = "stopped"

\* C29: the error state is not a dead end and is left only by an explicit
\* stop(): from error, start() is rejected and leaves the state error,
\* stop() with a succeeding onStop moves error -> stopping -> stopped, after
\* which start() is accepted again; stopped is reachable from every
\* lifecycle state.
C29_ErrorLeftOnlyByStop ==
  /\ [][ErrorStep(Solo) /\ ErrorLeftByStop(Solo) /\ RecoveryStep(Solo)]_vars
  /\ []StoppedReachable(Solo)

\* The parts of C29 other than "left only by an explicit stop()".
ErrorRecoverable ==
  /\ [][ErrorStep(Solo) /\ RecoveryStep(Solo)]_vars
  /\ []StoppedReachable(Solo)

\* C30: in every reachable state, under any interleaving of start() and
\* stop() calls and hook completions on one agent, the recurring
\* health-check timer is active only while the state is running: in stopped,
\* starting, stopping and error no timer of the agent is scheduled.
C30_TimerOnlyWhileRunning ==
  agent[Solo].state # "running" =>
    /\ ActiveTimers(agent[Solo]) = {}
    /\ agent[Solo].healthTimer = 0

\* The same, for the agents on which no stop() was ever accepted while a
\* start() was awaiting onStart.
TimerOnlyWhileRunningUnlessOverlap ==
  (\A c \in DOMAIN agent[Solo].calls :
     ~(agent[Solo].calls[c].op = "stop" /\ agent[Solo].calls[c].pre = "starting"))
    => (agent[Solo].state # "running" => ActiveTimers(agent[Solo]) = {})

\* This step is the resolution of bulk call b.
BulkResolves(b) == bulks[b].pc = "awaiting" /\ bulks'[b].pc = "resolved"

\* C31: when stopAll() resolves, every agent that was registered when it
\* was called is in state stopped or error, whatever the agents' states were
\* when it was called, including agents with a start() or stop() still in
\* flight.
C31_StopAllLeavesNoAgentActive ==
  [][\A b \in DOMAIN bulks :
       (bulks[b].op = "stopAll" /\ BulkResolves(b)) =>
         \A i \in DOMAIN bulks[b].subs :
           agent'[SubAgent(b, i)].state \in {"stopped", "error"}]_vars

\* C31, amended: when stopAll() resolves, every stop() attempt it made has
\* settled, and an agent registered when it was called is in state stopped
\* or error unless another lifecycle call on it was in flight when stopAll()
\* was called or was made since; an attempt on an agent whose earlier stop()
\* awaits onStop is a no-op, so that agent can still be stopping.
C31_StopAllLeavesIdleAgentsStopped ==
  [][\A b \in DOMAIN bulks :
       (bulks[b].op = "stopAll" /\ BulkResolves(b)) =>
         \A i \in DOMAIN bulks[b].subs :
           /\ SubCall(b, i).pc \in {"resolved", "rejected"}
           /\ \/ agent'[SubAgent(b, i)].state \in {"stopped", "error"}
              \/ SubCall(b, i).busy
              \/ bulks[b].subs[i].call < Len(agent[SubAgent(b, i)].calls)
           /\ (SubCall(b, i).pre = "stopping" /\ agent'[SubAgent(b, i)].state = "stopping") =>
                SubCall(b, i).busy /\ InFlight(agent[SubAgent(b, i)]) # {}]_vars

\* A stopAll() over two agents has resolved: one agent was running and is
\* stopped, the other was stopping and still is, its earlier stop() awaiting
\* onStop.
C31_Witness ==
  \E b \in DOMAIN bulks :
    /\ bulks[b].op = "stopAll" /\ bulks[b].pc = "resolved"
    /\ \E i, j \in DOMAIN bulks[b].subs :
         /\ SubCall(b, i).pre = "running" /\ ~SubCall(b, i).busy
         /\ agent[SubAgent(b, i)].state = "stopped"
         /\ SubCall(b, j).pre = "stopping"
         /\ agent[SubAgent(b, j)].state = "stopping"
         /\ bulks[b].subs[j].call = Len(agent[SubAgent(b, j)].calls)

\* C32: whenever the agent's state is stopping or stopped and no caller
\* invokes checkHealth() directly, the cached most-recent health does not
\* change and no unhealthy event is emitted: a health check initiated by
\* the timer or by the initial check never takes effect after stop() has
\* begun.
C32_NoHealthEffectAfterStop ==
  [][agent[Solo].state \in {"stopping", "stopped"} =>
       /\ agent'[Solo].lastHealthCheck = agent[Solo].lastHealthCheck
       /\ agent'[Solo].unhealthy = agent[Solo].unhealthy]_vars

\* A step in which a check begun by the agent's own scheduling while it was
\* running completes after stop() has begun, with an unhealthy result.
LateCheckCompletes(a) ==
  \E k \in agent[a].checks :
    /\ k.origin \in {"initial", "timer"} /\ k.pre = "running"
    /\ agent[a].state \in {"stopping", "stopped"}
    /\ Completes(a, k)
    /\ agent'[a].returned.status = "unhealthy"

\* C32, amended: the cached most-recent health changes, and an unhealthy
\* event is emitted, only when a checkHealth() completes; stop() neither
\* cancels nor discards a check that is outstanding, so a check begun by the
\* initial check or by a timer firing takes effect when it completes, also
\* in state stopping or stopped.
C32_OutstandingCheckTakesEffectAfterStop ==
  [][/\ (\/ agent'[Solo].lastHealthCheck # agent[Solo].lastHealthCheck
          \/ agent'[Solo].unhealthy # agent[Solo].unhealthy) =>
            \E k \in agent[Solo].checks : Completes(Solo, k)
     /\ (Calls(Solo, "stop") \/ \E c \in DOMAIN agent[Solo].calls :
                                    agent[Solo].calls[c].pc = "onStop"
                                      /\ agent'[Solo].calls[c].pc # "onStop") =>
            agent'[Solo].checks = agent[Solo].checks
     /\ LateCheckCompletes(Solo) =>
            /\ agent'[Solo].lastHealthCheck = agent'[Solo].returned
            /\ agent'[Solo].unhealthy = agent[Solo].unhealthy + 1
            /\ agent'[Solo].state = agent[Solo].state]_vars

\* The agent is stopped after one start and one stop, no check has taken
\* effect yet, and its initial check is about to complete as unhealthy.
C32_Witness ==
  /\ agent[Solo].state = "stopped"
  /\ Len(agent[Solo].calls) = 2
  /\ agent[Solo].lastHealthCheck = NoHealth
  /\ ENABLED (HealthCheckSettles(Solo, HealthOutcomes) /\ LateCheckCompletes(Solo))

\* This step resolves a stop() call of agent a: a call that awaited onStop
\* goes on after the hook returned, or a new call returns at once.
StopResolves(a) ==
  \/ \E c \in DOMAIN agent[a].calls : Settles(a, c, "onStop", "resolved")
  \/ Calls(a, "stop") /\ NewCall(a).pc = "resolved"

\* C33: whenever a stop() call resolves successfully, the agent's state at
\* that moment is stopped; this holds also for a stop() call made while an
\* earlier stop() on the same agent is still awaiting onStop.
C33_StopResolvesInStopped ==
  [][StopResolves(Solo) => agent'[Solo].state = "stopped"]_vars

\* C33, amended: a stop() call that invoked onStop leaves the state stopped
\* at the moment it resolves; a stop() call made in state stopped or
\* stopping resolves at once and changes nothing, so one made while an
\* earlier stop() still awaits onStop resolves in state stopping.
C33_StopResolvesInStoppedOrStopping ==
  [][/\ \A c \in DOMAIN agent[Solo].calls :
          Settles(Solo, c, "onStop", "resolved") => agent'[Solo].state = "stopped"
     /\ Calls(Solo, "stop") =>
          IF agent[Solo].state \in {"stopped", "stopping"}
          THEN /\ NewCall(Solo).pc = "resolved"
               /\ agent'[Solo].state = agent[Solo].state
               /\ agent'[Solo].events = agent[Solo].events
               /\ InFlight(agent'[Solo]) = InFlight(agent[Solo])
          ELSE NewCall(Solo).pc = "onStop"
     /\ StopResolves(Solo) => agent'[Solo].state \in {"stopped", "stopping"}]_vars

\* A stop() made while the first stop() awaits onStop has resolved, and the
\* agent is still stopping.
C33_Witness ==
  /\ agent[Solo].state = "stopping"
  /\ \E c, d \in DOMAIN agent[Solo].calls :
       /\ c < d
       /\ agent[Solo].calls[c].op = "stop" /\ agent[Solo].calls[c].pc = "onStop"
       /\ agent[Solo].calls[c].pre = "running"
       /\ agent[Solo].calls[d].op = "stop" /\ agent[Solo].calls[d].pc = "resolved"
       /\ agent[Solo].calls[d].pre = "stopping"

\* A startAll() step: every registered agent gets a start() attempt, enabled
\* or not; on an agent that is not stopped the attempt is rejected with the
\* state it found and changes nothing else, on a stopped agent it invokes
\* onStart.
StartAllAttemptsStep ==
  (Len(bulks') = Len(bulks) + 1 /\ bulks'[Len(bulks')].op = "startAll") =>
     \A x \in Range(registry) :
       /\ Calls(x, "start")
       /\ NewCall(x).by = Len(bulks')
       /\ IF agent[x].state = "stopped"
          THEN NewCall(x).pc = "onStart" /\ agent'[x].state = "starting"
          ELSE /\ NewCall(x).pc = "rejected"
               /\ NewCall(x).err.state = agent[x].state
               /\ agent'[x] = [agent[x] EXCEPT !.calls = agent'[x].calls]

\* A resolved startAll() reports in failed, and not in successful, every
\* agent that was not stopped when it was called.
NotStoppedReportedFailed ==
  \A b \in DOMAIN bulks :
    (bulks[b].op = "startAll" /\ bulks[b].pc = "resolved") =>
       /\ Len(bulks[b].subs) = Len(bulks[b].successful) + Len(bulks[b].failed)
       /\ \A i \in DOMAIN bulks[b].subs :
            SubCall(b, i).pre # "stopped" =>
              /\ IdOf(SubAgent(b, i)) \in Range(bulks[b].failed)
              /\ IdOf(SubAgent(b, i)) \notin Range(bulks[b].successful)

\* C34: startAll() does not skip agents that are not stopped: an agent that
\* is running, starting, stopping or in error when startAll() is called is
\* reported in failed and its state is left unchanged, so a second
\* startAll() on a fully running registry returns every identifier in failed
\* while all agents stay running; the enabled flag of the configuration has
\* no influence on which agents are started.
C34_StartAllAttemptsEveryAgent ==
  []NotStoppedReportedFailed /\ [][StartAllAttemptsStep]_vars

\* Two agents, one of them not enabled, were started by a first startAll();
\* a second startAll() resolved with both identifiers in failed, and both
\* agents are running.
C34_Witness ==
  /\ Len(bulks) = 2 /\ Len(registry) = 2
  /\ \E x \in Agents : ~config[x].enabled
  /\ bulks[1].op = "startAll" /\ Len(bulks[1].successful) = 2
  /\ bulks[2].op = "startAll" /\ bulks[2].pc = "resolved"
  /\ bulks[2].successful = <<>>
  /\ Range(bulks[2].failed) = {IdOf(x) : x \in Agents}
  /\ \A x \in Agents : agent[x].state = "running"

\* What a step does to the forwarding of instance x: a successful
\* register(x) adds one to the number of times x has been registered and no
\* other step changes it (unregister() does not); each started, stopped or
\* unhealthy event x emits is re-emitted once per registration so far,
\* whether x is registered at that moment or not.
ReEmissionStep(x) ==
  /\ agent'[x].listeners =
       agent[x].listeners +
         (IF registry' = Append(registry, x) /\ thrown' = "none" THEN 1 ELSE 0)
  /\ \A type \in {"started", "stopped", "unhealthy"} :
       agent'[x].forwarded[type] =
         agent[x].forwarded[type] +
           (EmittedCount(agent'[x], type) - EmittedCount(agent[x], type)) * agent[x].listeners

\* C35: the number of times the registry re-emits each started, stopped or
\* unhealthy event of an agent equals the number of times that instance has
\* been successfully registered: unregister() does not detach the
\* forwarding handlers (an unregistered agent's events are still
\* re-emitted), and register -> unregister -> register of the same instance
\* makes each event be re-emitted twice.
C35_ReEmittedOncePerRegistration == [][\A x \in Instances : ReEmissionStep(x)]_vars

\* The instance was registered, unregistered, registered and unregistered
\* again before it started; its started, stopped and unhealthy events were
\* each re-emitted twice.
C35_Witness ==
  /\ agent[Solo].listeners = 2
  /\ Solo \notin Range(registry)
  /\ \A type \in {"started", "stopped", "unhealthy"} :
       /\ EmittedCount(agent[Solo], type) = 1
       /\ agent[Solo].forwarded[type] = 2

\* The result of the check that completes in this step, from what its
\* performHealthCheck did.
ResultNow(a) ==
  IF agent'[a].outcome = "throws" THEN Unhealthy(ThrownMessage)
  ELSE Reported(agent'[a].outcome)

\* A step changes the health getInfo() reports only by completing a check,
\* and then to the result of that check.
HealthFollowsCompletion(a) ==
  /\ \A k \in agent[a].checks :
       Completes(a, k) => getInfo(a).health' = ResultNow(a)
  /\ (\A k \in agent[a].checks : ~Completes(a, k)) =>
       getInfo(a).health' = getInfo(a).health

\* C36: once any checkHealth() has completed on an agent, getInfo().health
\* is always the result of the most recently completed check (the last to
\* complete, not the last to start): stop(), start(), start and stop
\* failures and restarts never reset it to the unknown default.
C36_HealthIsLastCompletedCheck ==
  /\ [](agent[Solo].outcome # "none" =>
          /\ getInfo(Solo).health = agent[Solo].returned
          /\ getInfo(Solo).health # NoCheckYet)
  /\ [][HealthFollowsCompletion(Solo)]_vars

\* The agent was started, stopped and is being started again; no check of
\* the new run exists yet and getInfo() reports the degraded health of the
\* previous run.
C36_Witness ==
  /\ Len(agent[Solo].calls) = 3
  /\ agent[Solo].calls[3].op = "start" /\ agent[Solo].calls[3].pc = "onStart"
  /\ agent[Solo].calls[2].op = "stop" /\ agent[Solo].calls[2].pc = "resolved"
  /\ agent[Solo].state = "starting"
  /\ Len(agent[Solo].timers) = 1
  /\ agent[Solo].checks = {}
  /\ getInfo(Solo).health = Reported("degraded")

\* The start() calls of the agent that passed the state precondition.
Accepted(self) ==
  {c \in DOMAIN self.calls : self.calls[c].op = "start" /\ self.calls[c].pre = "stopped"}

\* startedAt is absent exactly while no start() has been accepted, and is
\* otherwise the timestamp of the last accepted start(), whatever became of
\* it; the uptime is zero exactly while startedAt is absent.
StartedAtIsLastAcceptedStart(a) ==
  /\ getInfo(a).startedAt = 0 <=> Accepted(agent[a]) = {}
  /\ \A c \in Accepted(agent[a]) :
       /\ getInfo(a).startedAt >= c
       /\ getInfo(a).startedAt \in Accepted(agent[a])
  /\ getInfo(a).uptime = 0 <=> getInfo(a).startedAt = 0
  /\ getInfo(a).uptime >= 0

\* startedAt is set in the step of an accepted start(), on entering
\* starting, and changes in no other step.
StartedAtStep(a) ==
  IF Calls(a, "start") /\ agent[a].state = "stopped"
  THEN /\ agent'[a].state = "starting"
       /\ getInfo(a).startedAt' = Len(agent'[a].calls)
       /\ getInfo(a).startedAt' # getInfo(a).startedAt
  ELSE getInfo(a).startedAt' = getInfo(a).startedAt

OneTimerHeld(a) ==
  /\ Cardinality(ActiveTimers(agent[a])) <= 1
  /\ ActiveTimers(agent[a]) \subseteq {agent[a].healthTimer}

\* A step that schedules a timer leaves every earlier timer cancelled.
SchedulingCancelsHeld(a) ==
  Len(agent'[a].timers) > Len(agent[a].timers) =>
    /\ Len(agent'[a].timers) = Len(agent[a].timers) + 1
    /\ ActiveTimers(agent'[a]) = {Len(agent'[a].timers)}
    /\ agent'[a].healthTimer = Len(agent'[a].timers)

\* C38: an agent never has more than one recurring health-check timer
\* scheduled at a time, after any sequence and interleaving of start() and
\* stop() calls (including a start accepted while an earlier start's
\* onStart is still pending): starting health monitoring always cancels the
\* previously held timer before scheduling a new one.
C38_AtMostOneTimer == []OneTimerHeld(Solo) /\ [][SchedulingCancelsHeld(Solo)]_vars

\* A second start was accepted while the first start's onStart was pending;
\* both succeeded, no stop() was called since, and of the two timers
\* created only the second is scheduled.
C38_Witness ==
  /\ Len(agent[Solo].calls) = 3
  /\ agent[Solo].calls[1].op = "start" /\ agent[Solo].calls[1].pc = "resolved"
  /\ agent[Solo].calls[2].op = "stop" /\ agent[Solo].calls[2].pre = "starting"
  /\ agent[Solo].calls[3].op = "start" /\ agent[Solo].calls[3].pc = "resolved"
  /\ agent[Solo].calls[3].pre = "stopped" /\ agent[Solo].calls[3].busy
  /\ Len(agent[Solo].timers) = 2
  /\ ActiveTimers(agent[Solo]) = {2}
  /\ agent[Solo].state = "running"

\* This step is the handling of an 'error' event on agent a: the state
\* changes with no lifecycle call made or resumed.
ErrorEventHandled(a) ==
  /\ agent'[a].events # agent[a].events
  /\ agent'[a].calls = agent[a].calls

\* What the steps of agent a do around 'error' events: handling one sets the
\* state to error with one stateChanged event and touches nothing else (no
\* hook is invoked, the timer stays as it is); start() in state error is
\* rejected; the state stopped is entered only by a stop() whose onStop
\* succeeded.
ErrorEventStep(a) ==
  /\ ErrorEventHandled(a) =>
       agent'[a] = [agent[a] EXCEPT
                      !.state = "error",
                      !.events = Append(@, Event("stateChanged", agent[a].state, "error"))]
  /\ (agent[a].state = "error" /\ Calls(a, "start")) =>
       /\ NewCall(a).pc = "rejected"
       /\ agent'[a].state = "error"
       /\ InFlight(agent'[a]) = InFlight(agent[a])
  /\ (agent[a].state # "stopped" /\ agent'[a].state = "stopped") =>
       \E c \in DOMAIN agent[a].calls : Settles(a, c, "onStop", "resolved")

\* In every state the listener would force the state to error, leaving the
\* calls, the timers and the checks as they are.
ErrorForcedFromAnyState(a) ==
  /\ onError(agent[a]).state = "error"
  /\ onError(agent[a]).calls = agent[a].calls
  /\ onError(agent[a]).timers = agent[a].timers
  /\ onError(agent[a]).healthTimer = agent[a].healthTimer
  /\ onError(agent[a]).checks = agent[a].checks
  /\ Len(onError(agent[a]).events) = Len(agent[a].events) + 1

\* C39: an 'error' event emitted on an agent forces its lifecycle state to
\* error from any state (emitting a stateChanged event), without invoking
\* onStop and without cancelling the health-check timer; afterwards start()
\* is rejected until a stop() has succeeded.
C39_ErrorEventForcesError ==
  []ErrorForcedFromAnyState(Solo) /\ [][ErrorEventStep(Solo)]_vars

\* An 'error' event was emitted on the running agent: it is in error with
\* its timer still scheduled, no hook failed, and the start() made since was
\* rejected.
C39_Witness ==
  /\ agent[Solo].state = "error"
  /\ Len(agent[Solo].calls) = 2
  /\ agent[Solo].calls[1].op = "start" /\ agent[Solo].calls[1].pc = "resolved"
  /\ agent[Solo].calls[2].op = "start" /\ agent[Solo].calls[2].pc = "rejected"
  /\ agent[Solo].calls[2].pre = "error"
  /\ agent[Solo].events[Len(agent[Solo].events)] = Event("stateChanged", "running", "error")
  /\ ActiveTimers(agent[Solo]) = {1}

====
